---- MODULE Spec2Model ----
(***************************************************************************)
(* Model of the collage of the isthisyiff frontend:                        *)
(*   - the grid engine (class Collage, collage.ts),                        *)
(*   - the preview pool (class BlockImageDownloader, downloader.ts).       *)
(*   - the component that owns both (Collage.vue): its zoom and resize,    *)
(*     and the subscriber that hands new blocks to the downloader.         *)
(* Pixel quantities are integers.  Vectors are records [x, y].             *)
(***************************************************************************)
EXTENDS Integers, Sequences, FiniteSets, TLC

(***************************************************************************)
(* Bounds of the model.                                                    *)
(***************************************************************************)
\* engine operations per behaviour (init included)
MaxOps == 3
\* calls of init per behaviour
MaxInits == 2
\* calls of assignBlocks per behaviour
MaxCalls == 3
\* blocks handed to assignBlocks per behaviour
MaxTiles == 8
\* previews the listing serves per behaviour
MaxPreviews == 4
\* drag events and flicks per behaviour
MaxMoves == 2
\* wins in a row
MaxStreak == 13
\* bounds checks and calls of init() taken pass by pass, per behaviour
MaxChecks == 2
\* previews the listing serves per behaviour while the image fetches are
\* left in flight
MaxListed == 8

(***************************************************************************)
(* Inputs of the engine's operations.                                      *)
(***************************************************************************)
V(a, b) == [x |-> a, y |-> b]

\* init(blockSize, viewportSize)
InitArgs == {<<150, V(800, 600)>>, <<50, V(200, 100)>>, <<450, V(200, 100)>>}
\* setBlockSize(size)
BlockSizes == {150, 300, 450}
\* shiftOrigin(size)
Deltas == {V(-1000, 0), V(0, 0), V(10, -40), V(160, 700)}
\* setOrigin(position)
Positions == {V(0, 0), V(-75, 310)}

(***************************************************************************)
(* helpers.ts                                                              *)
(***************************************************************************)
\* Math.abs
Abs(n) == IF n < 0 THEN -n ELSE n

oppositeAxis(axis) == IF axis = "x" THEN "y" ELSE "x"

add(a, b) == [x |-> a.x + b.x, y |-> a.y + b.y]

multiply(a, b) == [x |-> a.x * b.x, y |-> a.y * b.y]

vectorOf(a) == [x |-> a, y |-> a]

\* Math.ceil(a / b) for a >= 0, b > 0
Ceil(a, b) == (a + b - 1) \div b

\* F applied to the value of v, v being evaluated once
With(v, F(_)) == CHOOSE r \in {F(x) : x \in {v}} : TRUE

(***************************************************************************)
(* State.                                                                  *)
(***************************************************************************)
VARIABLES
    blockSize,      \* Collage.blockSize
    blocks,         \* Collage.blocks: sequence of [id, gen, position]
    viewportSize,   \* Collage.viewportSize
    blockOrigin,    \* Collage.blockOrigin (the spec's gridOffset)
    origin,         \* Collage.origin
    blockCounts,    \* Collage.blockCounts (the spec's extent)
    blockId,        \* Collage.blockId
    gen,            \* number of init() calls so far; <<gen, id>> is the
                    \* identity of a block object
    emitted,        \* the events blockLifecycleChanges got from the latest
                    \* operation, in order
    last,           \* what the latest operation was and did
    nOps            \* operations so far

engineVars == <<blockSize, blocks, viewportSize, blockOrigin, origin,
                blockCounts, blockId, gen, emitted, last, nOps>>

VARIABLES
    previewPool,    \* BlockImageDownloader.previewPool: sequence of previews
    pendingPoolRefillRequest,
                    \* BlockImageDownloader.pendingPoolRefillRequest: a
                    \* promise, or Null
    promises,       \* the promises getPreviews() returned: state, value and
                    \* the calls awaiting them, in the order they began to
    calls,          \* the calls of assignBlocks: their blocks and where
                    \* they are suspended
    tiles,          \* the blocks handed to assignBlocks: state, metadata
                    \* url/uuid, sourceImage, and their image fetches
    microtasks,     \* the continuations ready to run, in order
    served,         \* previews the listing has served so far
    handed          \* the previews shifted off the pool so far, in order,
                    \* each with the block and the call that took it

poolVars == <<previewPool, pendingPoolRefillRequest, promises, calls, tiles,
              microtasks, served, handed>>

VARIABLES
    zoomLevel,      \* zoomLevel of the component: a ratio [n, d]
    interactive,    \* props.interactive
    canvasSize,     \* canvas.width, canvas.height
    lastZoom        \* what the latest call of zoom() was asked and did

ctlVars == <<zoomLevel, interactive, canvasSize, lastZoom>>

VARIABLES
    driftRate,      \* driftRate of the component, pixels per second
    isDrifting,     \* isDrifting of the component
    running,        \* running.value
    painted,        \* lastPaintAt is not null
    dragging,       \* a drag gesture has begun and not ended
    lastMotion,     \* what the latest drag event, tick or flick was and did
    nMoves          \* drag events and flicks so far

motionVars == <<driftRate, isDrifting, running, painted, dragging, lastMotion,
                nMoves>>

VARIABLES
    streak,         \* Scoreboard.streak
    bestStreak,     \* Scoreboard.bestStreak
    lastResult      \* the latest call on the scoreboard: "win", "lose", or
                    \* "none" before the first

scoreVars == <<streak, bestStreak, lastResult>>

VARIABLES
    loop            \* a bounds check or an init() pass by pass: the grid,
                    \* the origin, block size and viewport size it works
                    \* with, the loop it is in and the blocks that loop has
                    \* collected

loopVars == <<loop>>

vars == <<engineVars, poolVars, ctlVars, motionVars, scoreVars, loopVars>>

\* Collage.preloadDistance
preloadDistance == 75

\* Collage.blockSize initialiser
initialBlockSize == 150

(***************************************************************************)
(* The grid as a value: the fields extend/shrink read and write.           *)
(***************************************************************************)
Grid == [blocks |-> blocks, blockOrigin |-> blockOrigin,
         blockCounts |-> blockCounts, blockId |-> blockId, gen |-> gen]

NoBlocks == <<>>

\* variant of addBlock: the id counter is read but not advanced
addBlock_sameId(g, position, k) ==
    [id |-> g.blockId, gen |-> g.gen, position |-> position]

\* Collage.addBlock: the block created for a position
addBlock(g, position, k) ==
    [id |-> g.blockId + k, gen |-> g.gen, position |-> position]

\* variant of shrink: the blocks of the line stay in Collage.blocks
shrink_keepsBlocks(g, axis, side) ==
    LET rowOrColumnIndex ==
            IF side = "start" THEN g.blockOrigin[axis]
                              ELSE g.blockOrigin[axis] + g.blockCounts[axis] - 1
        InLine(b) == b.position[axis] = rowOrColumnIndex
        blocksForRemoval == SelectSeq(g.blocks, InLine)
    IN [g |-> [g EXCEPT !.blockCounts[axis] = @ - 1,
                        !.blockOrigin[axis] = IF side = "start" THEN @ + 1 ELSE @],
        out |-> blocksForRemoval]

\* the position extend() gives the p-th block of a new row or column;
\* variant: the new line at the end of an axis is put on the last line
newBlockPosition_onLastLine(g, axis, side, p) ==
    [x |-> IF axis = "x"
             THEN (IF side = "start" THEN g.blockOrigin.x - 1
                                     ELSE g.blockOrigin.x + g.blockCounts.x - 1)
             ELSE g.blockOrigin.x + p,
     y |-> IF axis = "y"
             THEN (IF side = "start" THEN g.blockOrigin.y - 1
                                     ELSE g.blockOrigin.y + g.blockCounts.y - 1)
             ELSE g.blockOrigin.y + p]

\* the position extend() gives the p-th block of a new row or column
newBlockPosition(g, axis, side, p) ==
    [x |-> IF axis = "x"
             THEN (IF side = "start" THEN g.blockOrigin.x - 1
                                     ELSE g.blockOrigin.x + g.blockCounts.x)
             ELSE g.blockOrigin.x + p,
     y |-> IF axis = "y"
             THEN (IF side = "start" THEN g.blockOrigin.y - 1
                                     ELSE g.blockOrigin.y + g.blockCounts.y)
             ELSE g.blockOrigin.y + p]

\* variant of extend: blockOrigin stays where it is at the start edge
extend_keepsOffset(g, axis, side) ==
    LET n == g.blockCounts[oppositeAxis(axis)]
        introducedBlocks ==
            [i \in 1..n |-> addBlock(g, newBlockPosition(g, axis, side, i - 1), i - 1)]
    IN [g |-> [g EXCEPT !.blocks = g.blocks \o introducedBlocks,
                        !.blockId = g.blockId + (IF n > 0 THEN n ELSE 0),
                        !.blockCounts[axis] = @ + 1],
        out |-> introducedBlocks]

\* Collage.extend: add a row or column at the start or end of an axis
extend(g, axis, side) ==
    LET n == g.blockCounts[oppositeAxis(axis)]
        introducedBlocks ==
            [i \in 1..n |-> addBlock(g, newBlockPosition(g, axis, side, i - 1), i - 1)]
    IN [g |-> [g EXCEPT !.blocks = g.blocks \o introducedBlocks,
                        !.blockId = g.blockId + (IF n > 0 THEN n ELSE 0),
                        !.blockCounts[axis] = @ + 1,
                        !.blockOrigin[axis] = IF side = "start" THEN @ - 1 ELSE @],
        out |-> introducedBlocks]

\* Collage.shrink: remove the row or column at the start or end of an axis
shrink(g, axis, side) ==
    LET rowOrColumnIndex ==
            IF side = "start" THEN g.blockOrigin[axis]
                              ELSE g.blockOrigin[axis] + g.blockCounts[axis] - 1
        InLine(b) == b.position[axis] = rowOrColumnIndex
        NotInLine(b) == ~InLine(b)
        blocksForRemoval == SelectSeq(g.blocks, InLine)
    IN [g |-> [g EXCEPT !.blocks = SelectSeq(g.blocks, NotInLine),
                        !.blockCounts[axis] = @ - 1,
                        !.blockOrigin[axis] = IF side = "start" THEN @ + 1 ELSE @],
        out |-> blocksForRemoval]

\* the pixel origin of the grid (gridPixelOrigin of introduce/remove)
gridPixelOrigin(g, org, bs) ==
    [x |-> org.x + g.blockOrigin.x * bs, y |-> org.y + g.blockOrigin.y * bs]

\* the pixel size of the grid (gridSize of introduce/remove)
gridSize(g, bs) == multiply(g.blockCounts, vectorOf(bs))

Keep(g) == [g |-> g, out |-> NoBlocks]

\* one cycle of the do-while loop of Collage.introduce: the four tests use
\* the grid origin and size computed at the top of the cycle, and every
\* extend() is pushed onto introducedBlocks
introduceCycle(g, introducedBlocks, org, bs, vp) ==
    LET gpo == gridPixelOrigin(g, org, bs)
        gs  == gridSize(g, bs)
    IN With(IF gpo.x + gs.x < vp.x + preloadDistance
              THEN extend(g, "x", "end") ELSE Keep(g), LAMBDA s1 :
       With(IF gpo.x > -preloadDistance
              THEN extend(s1.g, "x", "start") ELSE Keep(s1.g), LAMBDA s2 :
       With(IF gpo.y + gs.y < vp.y + preloadDistance
              THEN extend(s2.g, "y", "end") ELSE Keep(s2.g), LAMBDA s3 :
       With(IF gpo.y > -preloadDistance
              THEN extend(s3.g, "y", "start") ELSE Keep(s3.g), LAMBDA s4 :
       [g |-> s4.g,
        out |-> introducedBlocks \o s1.out \o s2.out \o s3.out \o s4.out]))))

\* variant of introduce: one cycle only, no loop
introduce_once(g, introducedBlocks, org, bs, vp) ==
    introduceCycle(g, introducedBlocks, org, bs, vp)

\* Collage.introduce: cycles until one leaves introducedBlocks as long as
\* it was
RECURSIVE introduce(_, _, _, _, _)
introduce(g, introducedBlocks, org, bs, vp) ==
    With(introduceCycle(g, introducedBlocks, org, bs, vp), LAMBDA c :
        IF Len(c.out) # Len(introducedBlocks)
          THEN introduce(c.g, c.out, org, bs, vp)
          ELSE c)

\* one cycle of the do-while loop of Collage.remove
removeCycle(g, removedBlocks, org, bs, vp) ==
    LET gpo == gridPixelOrigin(g, org, bs)
        gs  == gridSize(g, bs)
    IN With(IF gpo.y + gs.y > vp.y + bs * 2
              THEN shrink(g, "y", "end") ELSE Keep(g), LAMBDA s1 :
       With(IF gpo.y < -(bs * 2)
              THEN shrink(s1.g, "y", "start") ELSE Keep(s1.g), LAMBDA s2 :
       With(IF gpo.x + gs.x > vp.x + bs * 2
              THEN shrink(s2.g, "x", "end") ELSE Keep(s2.g), LAMBDA s3 :
       With(IF gpo.x < -(bs * 2)
              THEN shrink(s3.g, "x", "start") ELSE Keep(s3.g), LAMBDA s4 :
       [g |-> s4.g,
        out |-> removedBlocks \o s1.out \o s2.out \o s3.out \o s4.out]))))

\* variant of remove: one cycle only, no loop
remove_once(g, removedBlocks, org, bs, vp) ==
    removeCycle(g, removedBlocks, org, bs, vp)

\* Collage.remove: cycles until one leaves removedBlocks as long as it was
RECURSIVE remove(_, _, _, _, _)
remove(g, removedBlocks, org, bs, vp) ==
    With(removeCycle(g, removedBlocks, org, bs, vp), LAMBDA c :
        IF Len(c.out) # Len(removedBlocks)
          THEN remove(c.g, c.out, org, bs, vp)
          ELSE c)

Range(s) == {s[i] : i \in 1..Len(s)}

NewEvent(bl) == [blocks |-> bl, newState |-> "new"]
RemovedEvent(bl) == [blocks |-> bl, newState |-> "removed"]

\* variant of checkBounds: blocks added and removed again by the one call
\* are announced all the same
checkBounds_noCancel(g, org, bs, vp) ==
    With(introduce(g, NoBlocks, org, bs, vp), LAMBDA i :
    With(remove(i.g, NoBlocks, org, bs, vp), LAMBDA r :
       [g |-> r.g,
        introduced |-> i.out,
        removed |-> r.out,
        events |-> (IF Len(i.out) > 0 THEN <<NewEvent(i.out)>> ELSE <<>>)
                   \o (IF Len(r.out) > 0 THEN <<RemovedEvent(r.out)>> ELSE <<>>)]))

\* variant of checkBounds: both events are emitted whatever their length
checkBounds_unguarded(g, org, bs, vp) ==
    With(introduce(g, NoBlocks, org, bs, vp), LAMBDA i :
    With(remove(i.g, NoBlocks, org, bs, vp), LAMBDA r :
    With(Range(i.out) \cap Range(r.out), LAMBDA addedThenRemoved :
       LET NotCancelled(b) == b \notin addedThenRemoved
       IN [g |-> r.g,
           introduced |-> i.out,
           removed |-> r.out,
           events |-> <<NewEvent(SelectSeq(i.out, NotCancelled)),
                        RemovedEvent(SelectSeq(r.out, NotCancelled))>>])))

\* Collage.checkBounds: the grid after it, the blocks introduce() and
\* remove() returned, and the events it emits
checkBounds(g, org, bs, vp) ==
    With(introduce(g, NoBlocks, org, bs, vp), LAMBDA i :
    With(remove(i.g, NoBlocks, org, bs, vp), LAMBDA r :
    With(Range(i.out) \cap Range(r.out), LAMBDA addedThenRemoved :
       LET NotCancelled(b) == b \notin addedThenRemoved
           addedBlocks == IF addedThenRemoved # {}
                            THEN SelectSeq(i.out, NotCancelled) ELSE i.out
           removedBlocks == IF addedThenRemoved # {}
                              THEN SelectSeq(r.out, NotCancelled) ELSE r.out
       IN [g |-> r.g,
           introduced |-> i.out,
           removed |-> r.out,
           events |-> (IF Len(addedBlocks) > 0 THEN <<NewEvent(addedBlocks)>> ELSE <<>>)
                      \o (IF Len(removedBlocks) > 0
                            THEN <<RemovedEvent(removedBlocks)>> ELSE <<>>)])))

(***************************************************************************)
(* What the latest operation was.                                          *)
(***************************************************************************)
NoBoundsCheck == [g |-> Grid, introduced |-> NoBlocks, removed |-> NoBlocks,
                  events |-> <<>>]

NeverChecked == [valid |-> FALSE, origin |-> vectorOf(0), blockSize |-> 0]
CheckedAt(org, bs) == [valid |-> TRUE, origin |-> org, blockSize |-> bs]

\* the record of an operation: its name and argument (a vector, but for
\* init), whether it ran
\* checkBounds(), the blocks before it, the blocks introduce() and remove()
\* returned, the origin and block size of the latest checkBounds() so far
Did(op, arg, checked, cb, org, bs) ==
    [op |-> op, arg |-> arg, checked |-> checked,
     before |-> blocks,
     introduced |-> cb.introduced, removed |-> cb.removed,
     prevSettled |-> (last.op = "init" \/ last.checked),
     sameAsLastCheck |-> (last.checkAt = CheckedAt(org, bs)),
     checkAt |-> IF checked THEN CheckedAt(org, bs) ELSE last.checkAt]

(***************************************************************************)
(* Operations of the engine.                                               *)
(***************************************************************************)
\* the state after new Collage(defaultMetadata)
EngineInit ==
    /\ blockSize = initialBlockSize
    /\ blocks = NoBlocks
    /\ viewportSize = vectorOf(0)
    /\ blockOrigin = vectorOf(0)
    /\ origin = vectorOf(0)
    /\ blockCounts = vectorOf(0)
    /\ blockId = 0
    /\ gen = 0
    /\ emitted = <<>>
    /\ last = [op |-> "new", arg |-> vectorOf(0), checked |-> FALSE,
               before |-> NoBlocks,
               introduced |-> NoBlocks, removed |-> NoBlocks,
               prevSettled |-> FALSE, sameAsLastCheck |-> FALSE,
               checkAt |-> NeverChecked]
    /\ nOps = 0

\* variant of the initial rectangle: the id counter is not restarted at 0
initialBlocks_fromOne(counts, g) ==
    [i \in 1..(counts.x * counts.y) |->
        [id |-> i, gen |-> g,
         position |-> [x |-> (i - 1) % counts.x, y |-> (i - 1) \div counts.x]]]

\* the initial rectangle of init(), row by row
initialBlocks(counts, g) ==
    [i \in 1..(counts.x * counts.y) |->
        [id |-> i - 1, gen |-> g,
         position |-> [x |-> (i - 1) % counts.x, y |-> (i - 1) \div counts.x]]]

\* Collage.init up to its call of introduce(): the grid of the initial
\* rectangle, for the k-th initialisation
initialRectangle(bs, vp, k) ==
    LET counts == [x |-> Ceil(vp.x, bs), y |-> Ceil(vp.y, bs)]
    IN [blocks |-> initialBlocks(counts, k),
        blockOrigin |-> vectorOf(0),
        blockCounts |-> counts,
        blockId |-> counts.x * counts.y,
        gen |-> k]

\* Collage.init up to its event: the grid of the initial rectangle and of
\* the lines introduce() adds to it, and the blocks introduce() returned
initialised(bs, vp) ==
    introduce(initialRectangle(bs, vp, gen + 1), NoBlocks, vectorOf(0), bs, vp)

\* Collage.init(blockSize, viewportSize)
init(bs, vp) ==
    /\ nOps < MaxOps
    /\ gen < MaxInits
    /\ \E i \in {initialised(bs, vp)} :
          /\ blocks' = i.g.blocks
          /\ blockOrigin' = i.g.blockOrigin
          /\ blockCounts' = i.g.blockCounts
          /\ blockId' = i.g.blockId
          /\ gen' = gen + 1
          /\ origin' = vectorOf(0)
          /\ blockSize' = bs
          /\ viewportSize' = vp
          /\ emitted' = <<NewEvent(i.g.blocks)>>
          /\ last' = [Did("init", <<bs, vp>>, FALSE,
                          [NoBoundsCheck EXCEPT !.introduced = i.out],
                          vectorOf(0), bs)
                      EXCEPT !.checkAt = NeverChecked, !.sameAsLastCheck = FALSE]
    /\ nOps' = nOps + 1

\* the part setOrigin and setBlockSize share: the new origin and block size
\* are stored, then checkBounds() runs unless inhibited
Mutate(op, arg, org, bs, inhibitBoundsCheck) ==
    /\ nOps < MaxOps
    /\ origin' = org
    /\ blockSize' = bs
    /\ \E cb \in {IF inhibitBoundsCheck THEN NoBoundsCheck
                    ELSE checkBounds(Grid, org, bs, viewportSize)} :
          /\ blocks' = cb.g.blocks
          /\ blockOrigin' = cb.g.blockOrigin
          /\ blockCounts' = cb.g.blockCounts
          /\ blockId' = cb.g.blockId
          /\ emitted' = cb.events
          /\ last' = Did(op, arg, ~inhibitBoundsCheck, cb, org, bs)
    /\ nOps' = nOps + 1
    /\ UNCHANGED <<viewportSize, gen>>

\* a collage while the calls of one handler work on it: its grid, origin
\* and block size, where checkBounds() ran, and what it emitted and returned
Collaged(g, org, bs) ==
    [g |-> g, origin |-> org, blockSize |-> bs, checks |-> <<>>,
     events |-> <<>>, introduced |-> NoBlocks, removed |-> NoBlocks]

\* setOrigin and setBlockSize on such a collage
store(c, org, bs, inhibitBoundsCheck, vp) ==
    IF inhibitBoundsCheck
      THEN [c EXCEPT !.origin = org, !.blockSize = bs]
      ELSE With(checkBounds(c.g, org, bs, vp), LAMBDA cb :
              [g |-> cb.g, origin |-> org, blockSize |-> bs,
               checks |-> Append(c.checks, CheckedAt(org, bs)),
               events |-> c.events \o cb.events,
               introduced |-> c.introduced \o cb.introduced,
               removed |-> c.removed \o cb.removed])

\* the collage is left as c
Leave(op, arg, c) ==
    /\ origin' = c.origin
    /\ blockSize' = c.blockSize
    /\ blocks' = c.g.blocks
    /\ blockOrigin' = c.g.blockOrigin
    /\ blockCounts' = c.g.blockCounts
    /\ blockId' = c.g.blockId
    /\ emitted' = c.events
    /\ last' = Did(op, arg, Len(c.checks) > 0, c, c.origin, c.blockSize)

\* Collage.setOrigin(position, inhibitBoundsCheck)
setOrigin(position, inhibitBoundsCheck) ==
    Mutate("setOrigin", position, position, blockSize, inhibitBoundsCheck)

\* Collage.shiftOrigin(size, inhibitBoundsCheck)
shiftOrigin(size, inhibitBoundsCheck) ==
    Mutate("shiftOrigin", size, add(origin, size), blockSize, inhibitBoundsCheck)

\* Collage.setBlockSize(size, inhibitBoundsCheck)
setBlockSize(size, inhibitBoundsCheck) ==
    Mutate("setBlockSize", vectorOf(size), origin, size, inhibitBoundsCheck)

\* the operations called on a collage that has no subscriber
DoInit ==
    /\ \E a \in InitArgs : init(a[1], a[2])
    /\ UNCHANGED <<poolVars, ctlVars, motionVars, scoreVars, loopVars>>
DoSetOrigin ==
    /\ \E p \in Positions, inh \in BOOLEAN : setOrigin(p, inh)
    /\ UNCHANGED <<poolVars, ctlVars, motionVars, scoreVars, loopVars>>
DoShiftOrigin ==
    /\ \E d \in Deltas, inh \in BOOLEAN : shiftOrigin(d, inh)
    /\ UNCHANGED <<poolVars, ctlVars, motionVars, scoreVars, loopVars>>
DoSetBlockSize ==
    /\ \E s \in BlockSizes, inh \in BOOLEAN : setBlockSize(s, inh)
    /\ UNCHANGED <<poolVars, ctlVars, motionVars, scoreVars, loopVars>>

(***************************************************************************)
(* The component (Collage.vue): zoom, resize, the wheel and pinch handlers *)
(* and the watcher of props.interactive.                                   *)
(*                                                                         *)
(* A zoom level is a ratio [n, d] in lowest terms.  Pixel quantities are   *)
(* integers, so a zoom is taken only where its results are whole pixels;   *)
(* the factors 1.05 and 0.95 of the handlers never give whole pixels and   *)
(* are replaced by 2, 3, 1/2 and 1/3, which also reach both limits of the  *)
(* zoom level in a few steps.  What the subscriber of the collage does     *)
(* with the events (assignBlocks) is part of AppSpec; the downloader never *)
(* calls the collage or the component.                                     *)
(***************************************************************************)
maxZoomLevel == 3
minZoomLevel == 1
defaultBlockSize == 150

RECURSIVE GCD(_, _)
GCD(a, b) == IF b = 0 THEN a ELSE GCD(b, a % b)

Ratio(n, d) == [n |-> n \div GCD(n, d), d |-> d \div GCD(n, d)]
Whole(k) == [n |-> k, d |-> 1]
Times(a, b) == Ratio(a.n * b.n, a.d * b.d)
Over(a, b) == Ratio(a.n * b.d, a.d * b.n)
Less(a, b) == a.n * b.d < b.n * a.d

\* helpers.ts
subtract(a, b) == [x |-> a.x - b.x, y |-> a.y - b.y]

divide(a, b) == [x |-> IF b.x = 0 THEN 0 ELSE a.x \div b.x,
                 y |-> IF b.y = 0 THEN 0 ELSE a.y \div b.y]

\* multiply(v, vectorOf(f)) for a ratio f
scaled(v, f) == [x |-> (v.x * f.n) \div f.d, y |-> (v.y * f.n) \div f.d]

\* the divisions of divide() and scaled() leave no remainder
Divides(v, b) == v.x % b = 0 /\ v.y % b = 0
WholeScaled(v, f) == (v.x * f.n) % f.d = 0 /\ (v.y * f.n) % f.d = 0

\* the factors a wheel or pinch event changes the zoom level by
ChangeBys == {Whole(2), Whole(3), Ratio(1, 2), Ratio(1, 3)}
\* the points of the canvas wheel and pinch events happen at
ZoomPoints == {V(120, 60), V(300, 180)}
\* the sizes the container takes
CanvasSizes == {V(240, 120), V(600, 360)}

NoPoint == <<>>

\* no call of zoom() yet
NoZoom == [op |-> "none", requestedLevel |-> Whole(1), at |-> vectorOf(0),
           ran |-> FALSE, zoomLevel |-> Whole(1), blockSize |-> 0,
           origin |-> vectorOf(0), blocks |-> NoBlocks, events |-> <<>>,
           grid |-> [blocks |-> NoBlocks, blockOrigin |-> vectorOf(0),
                     blockCounts |-> vectorOf(0), blockId |-> 0, gen |-> 0],
           checks |-> <<>>]

\* the state after setup() of the component: the canvas of a page is
\* 300 x 150 until it is sized
CtlInit ==
    /\ zoomLevel = Whole(1)
    /\ interactive = FALSE
    /\ canvasSize = V(300, 150)
    /\ lastZoom = NoZoom

\* variant of the tests at the top of zoom(): every level is taken
rejected_never(requestedLevel) == FALSE

\* the two tests at the top of zoom()
rejected(requestedLevel) ==
    \/ Less(requestedLevel, Whole(minZoomLevel))
    \/ Less(Whole(maxZoomLevel), requestedLevel)

\* zoom() from its zoomFactor on, for the zoom level, origin and viewport
\* size it finds: the new zoom level, block size and origin
zoomTo(level, requestedLevel, zoomAtPoint, org, vp) ==
    LET zoomFactor == Over(requestedLevel, level)
        referenceOrigin == IF zoomAtPoint = NoPoint
                             THEN divide(vp, vectorOf(2)) ELSE zoomAtPoint
        currentCollagePosition == subtract(referenceOrigin, org)
        collagePositionAfterScaling == scaled(currentCollagePosition, zoomFactor)
        collagePositionDifference ==
            subtract(currentCollagePosition, collagePositionAfterScaling)
        newBlockSize == (defaultBlockSize * requestedLevel.n) \div requestedLevel.d
    IN [whole |-> /\ zoomAtPoint = NoPoint => Divides(vp, 2)
                  /\ WholeScaled(currentCollagePosition, zoomFactor)
                  /\ (defaultBlockSize * requestedLevel.n) % requestedLevel.d = 0,
        zoomLevel |-> requestedLevel,
        referenceOrigin |-> referenceOrigin,
        difference |-> collagePositionDifference,
        blockSize |-> newBlockSize,
        origin |-> add(org, collagePositionDifference)]

\* the record of a call of zoom(): what was asked, whether it went past
\* the tests, and the zoom level, block size, origin and blocks it found
Zoomed(op, requestedLevel, at, ran, level, bs, org, bl, events) ==
    [op |-> op, requestedLevel |-> requestedLevel, at |-> at, ran |-> ran,
     zoomLevel |-> level, blockSize |-> bs, origin |-> org, blocks |-> bl,
     events |-> events, grid |-> Grid, checks |-> <<>>]

\* variant of the end of zoom(): setBlockSize runs its bounds check
performZoom_checksTwice(c, newBlockSize, collagePositionDifference, vp) ==
    With(store(c, c.origin, newBlockSize, FALSE, vp), LAMBDA c1 :
         store(c1, add(c1.origin, collagePositionDifference), c1.blockSize,
               FALSE, vp))

\* the end of zoom(): collage.setBlockSize(newBlockSize, true), then
\* collage.shiftOrigin(collagePositionDifference)
performZoom(c, newBlockSize, collagePositionDifference, vp) ==
    With(store(c, c.origin, newBlockSize, TRUE, vp), LAMBDA c1 :
         store(c1, add(c1.origin, collagePositionDifference), c1.blockSize,
               FALSE, vp))

\* zoom(requestedLevel, zoomAtPoint) on the collage as it is
zoom(op, requestedLevel, zoomAtPoint) ==
    IF rejected(requestedLevel)
      THEN /\ lastZoom' = Zoomed(op, requestedLevel, zoomAtPoint, FALSE,
                                 zoomLevel, blockSize, origin, blocks, <<>>)
           /\ UNCHANGED <<engineVars, zoomLevel>>
      ELSE \E z \in {zoomTo(zoomLevel, requestedLevel, zoomAtPoint, origin,
                            viewportSize)} :
              /\ z.whole
              /\ zoomLevel' = z.zoomLevel
              /\ nOps < MaxOps
              /\ \E c \in {performZoom(Collaged(Grid, origin, blockSize),
                                        z.blockSize, z.difference, viewportSize)} :
                    /\ Leave(op, z.referenceOrigin, c)
                    /\ lastZoom' = [Zoomed(op, requestedLevel, z.referenceOrigin,
                                           TRUE, zoomLevel, blockSize, origin,
                                           blocks, c.events)
                                    EXCEPT !.checks = c.checks]
              /\ nOps' = nOps + 1
              /\ UNCHANGED <<viewportSize, gen>>

\* handleWheel: zoom by changeBy at the pointer
handleWheel(changeBy, offset) ==
    /\ interactive
    /\ ~(offset.x = 0 /\ offset.y = 0)
    /\ zoom("wheel", Times(zoomLevel, changeBy), offset)
    /\ UNCHANGED <<interactive, canvasSize>>

\* handlePinch: zoom by the factor of the pinch at its origin
handlePinch(changeBy, pinchOrigin) ==
    /\ interactive
    /\ zoom("pinch", Times(zoomLevel, changeBy), pinchOrigin)
    /\ UNCHANGED <<interactive, canvasSize>>

\* resize() when the container has another size than the canvas: the
\* collage is initialised for the new size, then zoom(1)
resizeTo(size) ==
    /\ size # canvasSize
    /\ nOps < MaxOps
    /\ gen < MaxInits
    /\ canvasSize' = size
    /\ \E i \in {initialised(defaultBlockSize, size)} :
       \E z \in {zoomTo(zoomLevel, Whole(1), NoPoint, vectorOf(0), size)} :
          /\ z.whole
          /\ \E c \in {performZoom(Collaged(i.g, vectorOf(0), defaultBlockSize),
                                    z.blockSize, z.difference, size)} :
                /\ blocks' = c.g.blocks
                /\ blockOrigin' = c.g.blockOrigin
                /\ blockCounts' = c.g.blockCounts
                /\ blockId' = c.g.blockId
                /\ emitted' = <<NewEvent(i.g.blocks)>> \o c.events
                /\ last' = [Did("resize", size, Len(c.checks) > 0, c, c.origin,
                                c.blockSize)
                            EXCEPT !.before = i.g.blocks,
                                   !.prevSettled = TRUE,
                                   !.sameAsLastCheck = FALSE]
                /\ lastZoom' = [Zoomed("resize", Whole(1), z.referenceOrigin,
                                       TRUE, zoomLevel, defaultBlockSize,
                                       vectorOf(0), i.g.blocks, c.events)
                                EXCEPT !.checks = c.checks, !.grid = i.g]
                /\ origin' = c.origin
                /\ blockSize' = c.blockSize
          /\ gen' = gen + 1
          /\ viewportSize' = size
          /\ zoomLevel' = z.zoomLevel
    /\ nOps' = nOps + 1
    /\ UNCHANGED interactive

\* resize(): the canvas takes the size of the container, the collage is
\* initialised when the size changed, then zoom(1)
resize(size) ==
    /\ IF size # canvasSize
         THEN resizeTo(size)
         ELSE /\ zoom("resize", Whole(1), NoPoint)
              /\ UNCHANGED <<interactive, canvasSize>>
    /\ running' = TRUE

\* watch(props): interactive is switched; when switched off the block size
\* goes back to the default (the zoom level is left as it is)
watchProps(newInteractive) ==
    /\ newInteractive # interactive
    /\ interactive' = newInteractive
    /\ IF ~newInteractive
         THEN setBlockSize(defaultBlockSize, FALSE)
         ELSE UNCHANGED engineVars
    /\ lastZoom' = NoZoom
    /\ isDrifting' = (~newInteractive \/ isDrifting)
    /\ UNCHANGED <<zoomLevel, canvasSize>>

DoResize ==
    /\ \E size \in CanvasSizes : resize(size)
    /\ UNCHANGED <<driftRate, isDrifting, painted, dragging, lastMotion, nMoves>>
    /\ UNCHANGED <<poolVars, scoreVars, loopVars>>
DoHandleWheel ==
    /\ \E c \in ChangeBys, p \in ZoomPoints : handleWheel(c, p)
    /\ UNCHANGED <<poolVars, motionVars, scoreVars, loopVars>>
DoHandlePinch ==
    /\ \E c \in ChangeBys, p \in ZoomPoints : handlePinch(c, p)
    /\ UNCHANGED <<poolVars, motionVars, scoreVars, loopVars>>
DoWatchProps ==
    /\ \E i \in BOOLEAN : watchProps(i)
    /\ UNCHANGED <<driftRate, running, painted, dragging, lastMotion, nMoves>>
    /\ UNCHANGED <<poolVars, scoreVars, loopVars>>

(***************************************************************************)
(* The preview pool: class BlockImageDownloader.                           *)
(*                                                                         *)
(* assignBlocks and refillPool are async functions.  A call runs without   *)
(* interruption up to its next await; the continuation of an await runs as *)
(* a microtask once the awaited promise is settled, microtasks run in the  *)
(* order they were queued, and a new task (a call of assignBlocks, the     *)
(* settling of a request or of a fetch) starts only when no microtask is   *)
(* left.                                                                   *)
(***************************************************************************)
\* BlockImageDownloader.previewBatchSize
previewBatchSize == 250

Null == 0

\* sizes of the batches assignBlocks is called with
BatchSizes == {0, 1, 2}
\* sizes of the batches of the starved-pool scenario
StarvedBatchSizes == {1, 2, 5}
\* numbers of previews a listing request returns (at most the number asked)
ResponseSizes == {n \in {0, 1, 2, 4} : n <= previewBatchSize}

PromiseIds == 1..(MaxCalls + 1)

FreePromise == [status |-> "free", previews |-> <<>>, waiters |-> <<>>]

\* a block as Collage.addBlock makes it: state New, no image, the default
\* metadata, and no image fetch so far.  block is the identity <<gen, id>>
\* of the block when the collage made it (Null for a block the caller of
\* assignBlocks made itself); removed tells that a Removed event has named
\* the block, stale that a fetch for the block has completed after that;
\* fetches are the calls of fetch() for the block, in order
NewTile == [state |-> "new", url |-> Null, uuid |-> Null,
            sourceImage |-> FALSE, fetches |-> <<>>,
            block |-> Null, removed |-> FALSE, stale |-> FALSE]

\* the identity of a block object of the collage
Identity(b) == <<b.gen, b.id>>

\* the tile a block of the collage is
TileOf(ts, b) == CHOOSE t \in 1..Len(ts) : ts[t].block = Identity(b)

\* Collage.blocks as it is read through a reference to the array
LiveBatch(bl, ts) == [i \in 1..Len(bl) |-> TileOf(ts, bl[i])]

\* the state after new BlockImageDownloader()
PoolInit ==
    /\ previewPool = <<>>
    /\ pendingPoolRefillRequest = Null
    /\ promises = [q \in PromiseIds |-> FreePromise]
    /\ calls = <<>>
    /\ tiles = <<>>
    /\ microtasks = <<>>
    /\ served = 0
    /\ handed = <<>>

\* the downloader as a value
Pool == [previewPool |-> previewPool,
         pendingPoolRefillRequest |-> pendingPoolRefillRequest,
         promises |-> promises, calls |-> calls, tiles |-> tiles,
         microtasks |-> microtasks,
         live |-> LiveBatch(blocks, tiles),
         handed |-> handed]

SetPool(d) ==
    /\ previewPool' = d.previewPool
    /\ pendingPoolRefillRequest' = d.pendingPoolRefillRequest
    /\ promises' = d.promises
    /\ calls' = d.calls
    /\ tiles' = d.tiles
    /\ microtasks' = d.microtasks
    /\ handed' = d.handed

\* a promise no field and no suspended call refers to any more is gone
Referenced(d, q) ==
    \/ d.pendingPoolRefillRequest = q
    \/ \E c \in 1..Len(d.calls) : d.calls[c].awaits = q

Collect(d) ==
    [d EXCEPT !.promises =
        [q \in PromiseIds |-> IF Referenced(d, q) THEN d.promises[q] ELSE FreePromise]]

\* call c suspends on promise q: queued behind the calls already awaiting
\* q, or ready at once when q is settled
Await(d, c, q, pc) ==
    LET d1 == [d EXCEPT !.calls[c].pc = pc, !.calls[c].awaits = q]
    IN IF d.promises[q].status = "pending"
         THEN [d1 EXCEPT !.promises[q].waiters = Append(@, c)]
         ELSE [d1 EXCEPT !.microtasks = Append(@, c)]

\* variant of refillPool: a request is issued whether or not one is pending
refillPool_noCoalescing(d, c) ==
    LET q == CHOOSE f \in PromiseIds :
                 /\ ~Referenced(d, f)
                 /\ \A f2 \in PromiseIds : ~Referenced(d, f2) => f <= f2
    IN Await([d EXCEPT !.pendingPoolRefillRequest = q,
                       !.promises[q] = [FreePromise EXCEPT !.status = "pending"]],
             c, q, "awaitOwn")

\* BlockImageDownloader.refillPool up to its await: a pending request is
\* awaited, otherwise getPreviews() is called and its promise is stored
refillPool(d, c) ==
    IF d.pendingPoolRefillRequest # Null
      THEN Await(d, c, d.pendingPoolRefillRequest, "awaitPending")
      ELSE LET q == CHOOSE f \in PromiseIds :
                        /\ ~Referenced(d, f)
                        /\ \A f2 \in PromiseIds : ~Referenced(d, f2) => f <= f2
           IN Await([d EXCEPT !.pendingPoolRefillRequest = q,
                              !.promises[q] = [FreePromise EXCEPT !.status = "pending"]],
                    c, q, "awaitOwn")

\* the array call c of assignBlocks was given, as the call finds it now:
\* the event of init() carries Collage.blocks itself, the events of
\* checkBounds() carry arrays of their own
Batch(d, c) == IF d.calls[c].live THEN d.live ELSE d.calls[c].blocks

\* variant of the catch block: the error is thrown again, so the promise of
\* assignBlocks is rejected
catchAssignError_rethrows(d, c) ==
    LET bl == Batch(d, c)
    IN [d EXCEPT !.tiles = [t \in 1..Len(d.tiles) |->
                               IF t \in Range(bl)
                                 THEN [d.tiles[t] EXCEPT !.state = "errored"]
                                 ELSE d.tiles[t]],
                 !.calls[c].pc = "rejected",
                 !.calls[c].threw = TRUE,
                 !.calls[c].caught = bl,
                 !.calls[c].awaits = Null]

\* the catch block of assignBlocks: every block of the batch is Errored
catchAssignError(d, c) ==
    LET bl == Batch(d, c)
    IN [d EXCEPT !.tiles = [t \in 1..Len(d.tiles) |->
                               IF t \in Range(bl)
                                 THEN [d.tiles[t] EXCEPT !.state = "errored"]
                                 ELSE d.tiles[t]],
                 !.calls[c].pc = "done",
                 !.calls[c].threw = TRUE,
                 !.calls[c].caught = bl,
                 !.calls[c].awaits = Null]

\* BlockImageDownloader.downloadImage up to its await: the block is
\* Downloading and the fetch of its url is under way
downloadImage(tile) ==
    IF tile.url = Null THEN tile
    ELSE [tile EXCEPT !.state = "downloading", !.fetches = Append(@, "inflight")]

\* variant of the for loop: the preview is read off the pool, not shifted
RECURSIVE useNextPreview_peeks(_, _, _)
useNextPreview_peeks(d, c, i) ==
    LET bl == Batch(d, c)
    IN IF i > Len(bl)
         THEN [d EXCEPT !.calls[c].pc = "done", !.calls[c].awaits = Null]
         ELSE IF Len(d.previewPool) = 0
                THEN [catchAssignError(d, c) EXCEPT !.calls[c].starved = TRUE]
                ELSE LET nextPreview == Head(d.previewPool)
                         t == bl[i]
                     IN With([d EXCEPT !.handed = Append(@,
                                           [preview |-> nextPreview, tile |-> t,
                                            call |-> c]),
                                       !.tiles[t] = downloadImage(
                                           [@ EXCEPT !.url = nextPreview,
                                                     !.uuid = nextPreview])],
                             LAMBDA d1 : useNextPreview_peeks(d1, c, i + 1))

\* the for loop of assignBlocks from the i-th block on: a preview is
\* shifted off the pool for each block; an empty pool throws
RECURSIVE useNextPreview(_, _, _)
useNextPreview(d, c, i) ==
    LET bl == Batch(d, c)
    IN IF i > Len(bl)
         THEN [d EXCEPT !.calls[c].pc = "done", !.calls[c].awaits = Null]
         ELSE IF Len(d.previewPool) = 0
                THEN [catchAssignError(d, c) EXCEPT !.calls[c].starved = TRUE]
                ELSE LET nextPreview == Head(d.previewPool)
                         t == bl[i]
                     IN With([d EXCEPT !.previewPool = Tail(@),
                                       !.handed = Append(@,
                                           [preview |-> nextPreview, tile |-> t,
                                            call |-> c]),
                                       !.tiles[t] = downloadImage(
                                           [@ EXCEPT !.url = nextPreview,
                                                     !.uuid = nextPreview])],
                             LAMBDA d1 : useNextPreview(d1, c, i + 1))

\* variant of the while loop: it ends as soon as the pool is not empty
obtainAndAssign_anyPreview(d, c) ==
    IF Len(d.previewPool) = 0
      THEN refillPool(d, c)
      ELSE useNextPreview(d, c, 1)

\* assignBlocks from the test of its while loop up to the next await or
\* to its end
obtainAndAssign(d, c) ==
    IF Len(d.previewPool) < Len(Batch(d, c))
      THEN refillPool(d, c)
      ELSE useNextPreview(d, c, 1)

\* the continuation of call c after its await
resume(d, c) ==
    LET pc == d.calls[c].pc
        q  == d.calls[c].awaits
    IN CASE pc = "awaitOwn" ->
              \* refillPool after `await this.pendingPoolRefillRequest` of the
              \* call that issued the request
              IF d.promises[q].status = "fulfilled"
                THEN [d EXCEPT !.previewPool = @ \o d.promises[q].previews,
                               !.pendingPoolRefillRequest = Null,
                               !.calls[c].pc = "refillReturned",
                               !.calls[c].awaits = Null,
                               !.microtasks = Append(@, c)]
                ELSE [d EXCEPT !.calls[c].pc = "refillThrew",
                               !.calls[c].awaits = Null,
                               !.microtasks = Append(@, c)]
         [] pc = "awaitPending" ->
              \* refillPool after awaiting the request of another call
              IF d.promises[q].status = "fulfilled"
                THEN [d EXCEPT !.calls[c].pc = "refillReturned",
                               !.calls[c].awaits = Null,
                               !.microtasks = Append(@, c)]
                ELSE [d EXCEPT !.calls[c].pc = "refillThrew",
                               !.calls[c].awaits = Null,
                               !.microtasks = Append(@, c)]
         [] pc = "refillReturned" -> obtainAndAssign(d, c)
         [] pc = "refillThrew" -> catchAssignError(d, c)
         [] OTHER -> d

\* a call of assignBlocks(blocks) at its start: live tells that blocks is
\* Collage.blocks itself; threw and caught tell that the call ended in its
\* catch block, and with which blocks; starved that it threw 'Empty
\* preview pool'
NewCall(batch, live) ==
    [blocks |-> batch, live |-> live, pc |-> "start", awaits |-> Null,
     threw |-> FALSE, caught |-> <<>>, starved |-> FALSE]

\* BlockImageDownloader.assignBlocks(blocks) with a batch of k new blocks,
\* up to its first await or to its end
assignBlocks(k) ==
    /\ microtasks = <<>>
    /\ Len(calls) < MaxCalls
    /\ Len(tiles) + k <= MaxTiles
    /\ LET c == Len(calls) + 1
           batch == [i \in 1..k |-> Len(tiles) + i]
           d0 == [Pool EXCEPT
                    !.tiles = @ \o [i \in 1..k |-> NewTile],
                    !.calls = Append(@, NewCall(batch, FALSE))]
       IN IF k = 0
            THEN SetPool([d0 EXCEPT !.calls[c].pc = "done"])
            ELSE SetPool(Collect(obtainAndAssign(d0, c)))
    /\ UNCHANGED served
    /\ UNCHANGED <<engineVars, ctlVars, motionVars, scoreVars, loopVars>>

\* the first continuation of the queue runs
RunMicrotask ==
    /\ microtasks # <<>>
    /\ SetPool(Collect(resume([Pool EXCEPT !.microtasks = Tail(@)], Head(microtasks))))
    /\ UNCHANGED served
    /\ UNCHANGED <<engineVars, ctlVars, motionVars, scoreVars, loopVars>>

\* GameClient.getPreviews resolves with n previews: the calls awaiting the
\* promise are queued.  The listing serves at most `most` previews in all
ListingReturnsWithin(q, n, most) ==
    /\ microtasks = <<>>
    /\ promises[q].status = "pending"
    /\ served + n <= most
    /\ promises' = [promises EXCEPT ![q] =
                       [status |-> "fulfilled",
                        previews |-> [i \in 1..n |-> served + i],
                        waiters |-> <<>>]]
    /\ microtasks' = promises[q].waiters
    /\ served' = served + n
    /\ UNCHANGED <<previewPool, pendingPoolRefillRequest, calls, tiles, handed>>
    /\ UNCHANGED <<engineVars, ctlVars, motionVars, scoreVars, loopVars>>

ListingReturns(q, n) == ListingReturnsWithin(q, n, MaxPreviews)

\* GameClient.getPreviews throws (the status of the response is not 200,
\* or the request fails)
ListingFails(q) ==
    /\ microtasks = <<>>
    /\ promises[q].status = "pending"
    /\ promises' = [promises EXCEPT ![q] =
                       [status |-> "rejected", previews |-> <<>>, waiters |-> <<>>]]
    /\ microtasks' = promises[q].waiters
    /\ UNCHANGED <<previewPool, pendingPoolRefillRequest, calls, tiles, served,
                   handed>>
    /\ UNCHANGED <<engineVars, ctlVars, motionVars, scoreVars, loopVars>>

\* downloadImage after `await fetch(url)`, for the f-th fetch of the block:
\* the image of the block is made
FetchResolves(t, f) ==
    /\ microtasks = <<>>
    /\ tiles[t].fetches[f] = "inflight"
    /\ tiles' = [tiles EXCEPT ![t].fetches[f] = "decoding", ![t].sourceImage = TRUE,
                             ![t].stale = @ \/ tiles[t].removed]
    /\ UNCHANGED <<previewPool, pendingPoolRefillRequest, promises, calls,
                   microtasks, served, handed>>
    /\ UNCHANGED <<engineVars, ctlVars, motionVars, scoreVars, loopVars>>

\* the onload handler of the image: the block is Ready
ImageLoads(t, f) ==
    /\ microtasks = <<>>
    /\ tiles[t].fetches[f] = "decoding"
    /\ tiles' = [tiles EXCEPT ![t].fetches[f] = "loaded", ![t].state = "ready",
                             ![t].stale = @ \/ tiles[t].removed]
    /\ UNCHANGED <<previewPool, pendingPoolRefillRequest, promises, calls,
                   microtasks, served, handed>>
    /\ UNCHANGED <<engineVars, ctlVars, motionVars, scoreVars, loopVars>>

\* fetch(url) rejects: downloadImage throws and nobody handles it
FetchFails(t, f) ==
    /\ microtasks = <<>>
    /\ tiles[t].fetches[f] = "inflight"
    /\ tiles' = [tiles EXCEPT ![t].fetches[f] = "failed"]
    /\ UNCHANGED <<previewPool, pendingPoolRefillRequest, promises, calls,
                   microtasks, served, handed>>
    /\ UNCHANGED <<engineVars, ctlVars, motionVars, scoreVars, loopVars>>

DoAssignBlocks == \E k \in BatchSizes : assignBlocks(k)
DoListingReturns == \E q \in PromiseIds, n \in ResponseSizes : ListingReturns(q, n)
DoListingFails == \E q \in PromiseIds : ListingFails(q)
DoListingReturnsMore ==
    \E q \in PromiseIds, n \in ResponseSizes : ListingReturnsWithin(q, n, MaxListed)
DoFetchResolves ==
    \E t \in 1..Len(tiles) : \E f \in 1..Len(tiles[t].fetches) : FetchResolves(t, f)
DoImageLoads ==
    \E t \in 1..Len(tiles) : \E f \in 1..Len(tiles[t].fetches) : ImageLoads(t, f)
DoFetchFails ==
    \E t \in 1..Len(tiles) : \E f \in 1..Len(tiles[t].fetches) : FetchFails(t, f)

\* the starved-pool scenario: the listing returns no entry, ever
StarvedAssignBlocks == \E k \in StarvedBatchSizes : assignBlocks(k)
ListingReturnsNothing == \E q \in PromiseIds : ListingReturns(q, 0)

(***************************************************************************)
(* The collage with its subscriber (Collage.vue): every event of the       *)
(* collage is handed, within the operation that emits it, to the callback  *)
(* that calls assignBlocks for a New event.  The blocks of the collage and *)
(* the blocks of the downloader are the same objects: a tile is made for   *)
(* every block a New event names.                                          *)
(***************************************************************************)
\* the tiles with those of the blocks the collage has just made
Made(ts, bl) ==
    ts \o [i \in 1..Len(bl) |-> [NewTile EXCEPT !.block = Identity(bl[i])]]

\* the tiles once a Removed event has named the blocks bl
Announced(ts, bl) ==
    [t \in 1..Len(ts) |->
        IF \E i \in 1..Len(bl) : ts[t].block = Identity(bl[i])
          THEN [ts[t] EXCEPT !.removed = TRUE]
          ELSE ts[t]]

\* the callback subscribed to getBlockLifecycleChanges(), for one event:
\* assignBlocks(blocks) up to its first await or to its end if the event
\* is a New event.  bl is Collage.blocks when the event is emitted, and
\* live tells that the event carries that array itself
subscriber(d, event, bl, live) ==
    IF event.newState = "new"
      THEN With(Made(d.tiles, event.blocks), LAMBDA ts :
           With([d EXCEPT !.tiles = ts,
                          !.live = LiveBatch(bl, ts),
                          !.calls = Append(@, NewCall(LiveBatch(event.blocks, ts), live))],
                LAMBDA d1 :
                   IF Len(event.blocks) = 0
                     THEN [d1 EXCEPT !.calls[Len(d1.calls)].pc = "done"]
                     ELSE obtainAndAssign(d1, Len(d1.calls))))
      ELSE [d EXCEPT !.tiles = Announced(@, event.blocks)]

\* the events of one operation are delivered in the order they are emitted
RECURSIVE deliver(_, _, _, _)
deliver(d, events, bl, live) ==
    IF events = <<>> THEN d
    ELSE With(subscriber(d, Head(events), bl, live),
              LAMBDA d1 : deliver(d1, Tail(events), bl, live))

NewEvents(events) == SelectSeq(events, LAMBDA e : e.newState = "new")

RECURSIVE BlocksIn(_)
BlocksIn(events) ==
    IF events = <<>> THEN 0 ELSE Len(Head(events).blocks) + BlocksIn(Tail(events))

\* what the subscriber does with the events of the operation in progress
Subscribed(live) ==
    /\ microtasks = <<>>
    /\ Len(calls) + Len(NewEvents(emitted')) <= MaxCalls
    /\ Len(tiles) + BlocksIn(NewEvents(emitted')) <= MaxTiles
    /\ SetPool(Collect(deliver(Pool, emitted', blocks', live)))
    /\ UNCHANGED served
    /\ UNCHANGED <<ctlVars, motionVars, scoreVars, loopVars>>

\* movements of the collage that add and remove blocks
Movements == {d \in Deltas : d.x <= -1000 \/ d.y >= 700}

\* the operations of the collage of the component while it drifts or is
\* dragged: init() when the canvas is resized, shiftOrigin() for a movement
AppInit ==
    /\ \E a \in InitArgs : init(a[1], a[2])
    /\ Subscribed(TRUE)
AppShiftOrigin ==
    /\ gen > 0
    /\ \E d \in Movements : shiftOrigin(d, FALSE)
    /\ Subscribed(FALSE)

(***************************************************************************)
(* Motion (Collage.vue): drag gestures, flick() and the animation tick     *)
(* update(), which lets the drift die out, shifts the origin by it and     *)
(* draws what present() returns.                                           *)
(*                                                                         *)
(* A drag gesture is a first event, any number of further events and a     *)
(* last event; its delta, distance, position and velocities are what the   *)
(* gesture library reports.  Velocities are in hundredths of a pixel per   *)
(* millisecond, positions are relative to the canvas.  A tick that paints  *)
(* comes a whole second after the one before, so that the shift             *)
(* driftRate * paintDelta / 1000 is whole pixels.                          *)
(***************************************************************************)
\* helpers.ts
invert(a) == multiply(a, vectorOf(-1))

functionOf(a, f(_)) == [x |-> f(a.x), y |-> f(a.y)]

\* flick(x, y)
Flicks == {V(26, -25)}
\* now - lastPaintAt, in milliseconds
PaintDeltas == {0, 1000}

\* a drag event
DragEvent(kind, delta, distance, xy, velocities, touches) ==
    [kind |-> kind, last |-> (kind = "last"), delta |-> delta,
     distance |-> distance, xy |-> xy, velocities |-> velocities,
     touches |-> touches]

NoEvent == DragEvent("none", vectorOf(0), 0, vectorOf(0), vectorOf(0), 0)

\* the events of drag gestures: the pointer goes down; it moves; it goes
\* up where it went down or elsewhere, on a block or beside the blocks, at
\* rest or moving, or while a second finger is down
DragEvents ==
    {DragEvent("first", vectorOf(0), 0, V(100, 50), vectorOf(0), 1),
     DragEvent("move", V(10, -40), 41, V(110, 10), V(1, -4), 1),
     DragEvent("last", vectorOf(0), 0, V(100, 50), vectorOf(0), 1),
     DragEvent("last", vectorOf(0), 0, V(-700, 50), vectorOf(0), 1),
     DragEvent("last", vectorOf(0), 41, V(110, 10), vectorOf(0), 1),
     DragEvent("last", V(-160, 0), 160, V(-60, 50), V(-9, 0), 1),
     DragEvent("last", vectorOf(0), 0, V(100, 50), vectorOf(0), 2)}

\* nothing was emitted
NoSelection == <<>>

\* the collage as a handler sees it
Seen(bl, org, bs, vp) ==
    [blocks |-> bl, origin |-> org, blockSize |-> bs, viewportSize |-> vp]

\* the record of a drag event, a tick or a flick: the event, the collage,
\* drift rate and gesture it found, what it emitted, the shift it asked
\* for, what present() returned to it, and the collage as it left it
Motion(op, event, selected, shifted, shift, presented, seen, c) ==
    [op |-> op, event |-> event, selected |-> selected, shifted |-> shifted,
     shift |-> shift, presented |-> presented, seen |-> seen,
     origin |-> origin, driftRate |-> driftRate, dragging |-> dragging,
     after |-> [origin |-> c.origin, blockSize |-> c.blockSize,
                checks |-> c.checks, events |-> c.events]]

\* the state after setup() of the component
MotionInit ==
    /\ driftRate = vectorOf(0)
    /\ isDrifting = TRUE
    /\ running = FALSE
    /\ painted = FALSE
    /\ dragging = FALSE
    /\ lastMotion = [op |-> "none", event |-> NoEvent, selected |-> NoSelection,
                     shifted |-> FALSE, shift |-> vectorOf(0),
                     presented |-> <<>>,
                     seen |-> Seen(NoBlocks, vectorOf(0), 0, vectorOf(0)),
                     origin |-> vectorOf(0), driftRate |-> vectorOf(0),
                     dragging |-> FALSE,
                     after |-> [origin |-> vectorOf(0), blockSize |-> 0,
                                checks |-> <<>>, events |-> <<>>]]
    /\ nMoves = 0

\* variant of present(): only the blocks on the screen are returned
present_onScreenOnly(bl, org, bs, vp) ==
    SelectSeq([i \in 1..Len(bl) |->
                  With(add(multiply(bl[i].position, vectorOf(bs)), org),
                       LAMBDA pixelPosition :
                          [pixelPosition |-> pixelPosition,
                           isOnScreen |-> ~(\/ pixelPosition.x + bs < 0
                                            \/ pixelPosition.x > vp.x
                                            \/ pixelPosition.y + bs < 0
                                            \/ pixelPosition.y > vp.y),
                           block |-> bl[i]])],
              LAMBDA e : e.isOnScreen)

\* Collage.present()
present(bl, org, bs, vp) ==
    [i \in 1..Len(bl) |->
        With(add(multiply(bl[i].position, vectorOf(bs)), org),
             LAMBDA pixelPosition :
                [pixelPosition |-> pixelPosition,
                 isOnScreen |-> ~(\/ pixelPosition.x + bs < 0
                                  \/ pixelPosition.x > vp.x
                                  \/ pixelPosition.y + bs < 0
                                  \/ pixelPosition.y > vp.y),
                 block |-> bl[i]])]

\* variant of distanceDragged: the delta as it is
distanceDragged_asIs(delta) == delta

\* handleDrag: distanceDragged
distanceDragged(delta) == invert(delta)

\* variant of the test for a tap: every last event is one
wasTap_always(event) == TRUE

\* handleDrag: was this actually just a tap/click?
wasTap(event) == event.distance = 0

\* handleDrag: the blocks of present() the pointer is on
clickedBlocks(presented, canvasMouse, bs) ==
    SelectSeq(presented, LAMBDA presentationBlock :
        /\ canvasMouse.x >= presentationBlock.pixelPosition.x
        /\ canvasMouse.y >= presentationBlock.pixelPosition.y
        /\ canvasMouse.x <= presentationBlock.pixelPosition.x + bs
        /\ canvasMouse.y <= presentationBlock.pixelPosition.y + bs)

\* handleDrag past its two tests
dragged(event) ==
    \E p \in {IF event.last /\ wasTap(event)
                THEN present(blocks, origin, blockSize, viewportSize)
                ELSE <<>>} :
    \E clicked \in {clickedBlocks(p, event.xy, blockSize)} :
    \E c \in {store(Collaged(Grid, origin, blockSize),
                    add(origin, invert(distanceDragged(event.delta))),
                    blockSize, FALSE, viewportSize)} :
       /\ driftRate' = IF event.last /\ ~wasTap(event)
                         THEN divide(multiply(event.velocities, vectorOf(300)),
                                     vectorOf(100))
                         ELSE driftRate
       /\ Leave("drag", invert(distanceDragged(event.delta)), c)
       /\ lastMotion' = Motion("drag", event,
                               IF Len(clicked) > 0
                                 THEN Identity(clicked[1].block) ELSE NoSelection,
                               TRUE, invert(distanceDragged(event.delta)), p,
                               Seen(blocks, origin, blockSize, viewportSize), c)
       /\ UNCHANGED <<viewportSize, gen, nOps>>

\* handleDrag(mouseState).  The gesture begins with its first event and
\* ends with its last, whether or not the handler returns early.
handleDrag(event) ==
    /\ nMoves < MaxMoves
    /\ nMoves' = nMoves + 1
    /\ (event.kind = "first") = ~dragging
    /\ dragging' = ~event.last
    /\ IF ~interactive \/ event.touches > 1
         THEN /\ lastMotion' = Motion("drag", event, NoSelection, FALSE, vectorOf(0),
                                      <<>>,
                                      Seen(blocks, origin, blockSize, viewportSize),
                                      Collaged(Grid, origin, blockSize))
              /\ UNCHANGED <<engineVars, driftRate>>
         ELSE dragged(event)
    /\ UNCHANGED <<isDrifting, running, painted>>

\* flick(x, y)
flick(rate) ==
    /\ nMoves < MaxMoves
    /\ nMoves' = nMoves + 1
    /\ driftRate' = rate
    /\ lastMotion' = Motion("flick", NoEvent, NoSelection, FALSE, vectorOf(0), <<>>,
                            Seen(blocks, origin, blockSize, viewportSize),
                            Collaged(Grid, origin, blockSize))
    /\ UNCHANGED <<engineVars, isDrifting, running, painted, dragging>>

\* variant of the decay: no snap to zero
decay_noSnap(d) == (d * 95) \div 100

\* update: Math.floor(Math.abs(d) < 25 ? 0 : d * 0.95)
decay(d) == IF Abs(d) < 25 THEN 0 ELSE (d * 95) \div 100

\* update() from the decay of the drift rate on
paint(paintDelta) ==
    \E rate \in {IF driftRate.x # 0 \/ driftRate.y # 0
                   THEN functionOf(driftRate, decay) ELSE driftRate} :
    \E shift \in {divide(multiply(rate, vectorOf(paintDelta)), vectorOf(1000))} :
    \E c \in {IF isDrifting
                THEN store(Collaged(Grid, origin, blockSize), add(origin, shift),
                           blockSize, FALSE, viewportSize)
                ELSE Collaged(Grid, origin, blockSize)} :
       /\ driftRate' = rate
       /\ IF isDrifting
            THEN Leave("update", shift, c)
            ELSE UNCHANGED <<origin, blockSize, blocks, blockOrigin, blockCounts,
                             blockId, emitted, last>>
       /\ lastMotion' = Motion("update", NoEvent, NoSelection, isDrifting, shift,
                               present(c.g.blocks, c.origin, c.blockSize,
                                       viewportSize),
                               Seen(c.g.blocks, c.origin, c.blockSize,
                                    viewportSize), c)
       /\ UNCHANGED <<viewportSize, gen, nOps, painted>>

\* update(now): nothing when not running; the first tick only takes the
\* time; a tick at the time of the one before paints nothing
update(paintDelta) ==
    /\ running
    /\ IF ~painted
         THEN /\ painted' = TRUE
              /\ UNCHANGED <<engineVars, driftRate, lastMotion>>
         ELSE IF paintDelta = 0
                THEN UNCHANGED <<engineVars, driftRate, lastMotion, painted>>
                ELSE paint(paintDelta)
    /\ UNCHANGED <<isDrifting, running, dragging, nMoves>>

DoHandleDrag ==
    /\ \E event \in DragEvents : handleDrag(event)
    /\ UNCHANGED <<poolVars, ctlVars, scoreVars, loopVars>>
DoUpdate ==
    /\ \E paintDelta \in PaintDeltas : update(paintDelta)
    /\ UNCHANGED <<poolVars, ctlVars, scoreVars, loopVars>>

(***************************************************************************)
(* The loops of introduce() and remove(), pass by pass.  A pass is one run *)
(* of the body of the do-while loop; the loop goes on when the pass has    *)
(* made the list of collected blocks longer.  init() runs introduce(), a   *)
(* bounds check introduce() and then remove().                             *)
(***************************************************************************)
\* the block sizes of setBlockSize() for these checks
LoopBlockSizes == BlockSizes \cup {50}

\* the collage of new Collage(), no loop running
LoopInit ==
    loop = [phase |-> "idle", init |-> FALSE,
            g |-> [blocks |-> NoBlocks, blockOrigin |-> vectorOf(0),
                   blockCounts |-> vectorOf(0), blockId |-> 0, gen |-> 0],
            origin |-> vectorOf(0), blockSize |-> initialBlockSize,
            viewportSize |-> vectorOf(0),
            out |-> NoBlocks, passes |-> 0, checks |-> 0]

\* init(blockSize, viewportSize) up to the first pass of introduce()
beginInit(bs, vp) ==
    /\ loop.phase = "idle"
    /\ loop.checks < MaxChecks
    /\ loop' = [phase |-> "introduce", init |-> TRUE,
                g |-> initialRectangle(bs, vp, loop.g.gen + 1),
                origin |-> vectorOf(0), blockSize |-> bs, viewportSize |-> vp,
                out |-> NoBlocks, passes |-> 0, checks |-> loop.checks + 1]

\* setOrigin, shiftOrigin or setBlockSize up to the first pass of the
\* introduce() of checkBounds()
beginCheck(org, bs) ==
    /\ loop.phase = "idle"
    /\ loop.checks < MaxChecks
    /\ loop' = [loop EXCEPT !.phase = "introduce", !.init = FALSE,
                            !.origin = org, !.blockSize = bs,
                            !.out = NoBlocks, !.passes = 0,
                            !.checks = @ + 1]

\* one pass of the loop of introduce(), and the test at its end
introducePass ==
    /\ loop.phase = "introduce"
    /\ \E c \in {introduceCycle(loop.g, loop.out, loop.origin, loop.blockSize,
                                 loop.viewportSize)} :
          loop' = IF Len(c.out) # Len(loop.out)
                    THEN [loop EXCEPT !.g = c.g, !.out = c.out, !.passes = @ + 1]
                    ELSE [loop EXCEPT !.phase = IF loop.init THEN "idle" ELSE "remove",
                                      !.out = NoBlocks, !.passes = @ + 1]

\* one pass of the loop of remove(), and the test at its end
removePass ==
    /\ loop.phase = "remove"
    /\ \E c \in {removeCycle(loop.g, loop.out, loop.origin, loop.blockSize,
                               loop.viewportSize)} :
          loop' = IF Len(c.out) # Len(loop.out)
                    THEN [loop EXCEPT !.g = c.g, !.out = c.out, !.passes = @ + 1]
                    ELSE [loop EXCEPT !.phase = "idle", !.out = NoBlocks,
                                      !.passes = @ + 1]

BeginInit ==
    /\ \E a \in InitArgs : beginInit(a[1], a[2])
    /\ UNCHANGED <<engineVars, poolVars, ctlVars, motionVars, scoreVars>>
BeginCheck ==
    /\ \/ \E p \in Positions : beginCheck(p, loop.blockSize)
       \/ \E d \in Deltas : beginCheck(add(loop.origin, d), loop.blockSize)
       \/ \E s \in LoopBlockSizes : beginCheck(loop.origin, s)
    /\ UNCHANGED <<engineVars, poolVars, ctlVars, motionVars, scoreVars>>
IntroducePass ==
    /\ introducePass
    /\ UNCHANGED <<engineVars, poolVars, ctlVars, motionVars, scoreVars>>
RemovePass ==
    /\ removePass
    /\ UNCHANGED <<engineVars, poolVars, ctlVars, motionVars, scoreVars>>

(***************************************************************************)
(* The scoreboard (scoreboard.ts): a guess that was right is a win, one    *)
(* that was wrong a loss; going back to the intro resets the score.        *)
(***************************************************************************)
\* the static fields as the class is loaded
ScoreInit ==
    /\ streak = 0
    /\ bestStreak = 0
    /\ lastResult = "none"

\* variant of win(): the best streak is left as it is
win_keepsBest ==
    /\ streak < MaxStreak
    /\ streak' = streak + 1
    /\ bestStreak' = bestStreak
    /\ lastResult' = "win"

\* Scoreboard.win()
win ==
    /\ streak < MaxStreak
    /\ streak' = streak + 1
    /\ bestStreak' = IF streak + 1 > bestStreak THEN streak + 1 ELSE bestStreak
    /\ lastResult' = "win"

\* Scoreboard.lose()
lose ==
    /\ streak' = 0
    /\ bestStreak' = bestStreak
    /\ lastResult' = "lose"

\* makeGuess (Game.vue) once the answer is there
DoGuess ==
    /\ \E right \in BOOLEAN : IF right THEN win ELSE lose
    /\ UNCHANGED <<engineVars, poolVars, ctlVars, motionVars, loopVars>>

\* backToIntro (App.vue) while a game is on: the collage is given a flick
\* and the score is reset
backToIntro ==
    /\ \E rate \in Flicks : flick(rate)
    /\ lose

DoFlick ==
    /\ backToIntro
    /\ UNCHANGED <<poolVars, ctlVars, loopVars>>

(***************************************************************************)
(* Specifications.                                                         *)
(***************************************************************************)
Init == EngineInit /\ PoolInit /\ CtlInit /\ MotionInit /\ ScoreInit /\ LoopInit

\* the grid engine under its operations
Next ==
    \/ DoInit
    \/ DoSetOrigin
    \/ DoShiftOrigin
    \/ DoSetBlockSize

Spec == Init /\ [][Next]_vars

\* the preview pool under calls of assignBlocks, the listing and the
\* image fetches
PoolNext ==
    \/ DoAssignBlocks
    \/ RunMicrotask
    \/ DoListingReturns
    \/ DoListingFails
    \/ DoFetchResolves
    \/ DoImageLoads
    \/ DoFetchFails

\* the microtask queue is drained: a runnable continuation does run
PoolSpec ==
    /\ Init /\ [][PoolNext]_vars
    /\ WF_vars(RunMicrotask)

\* the component under resizes, wheel and pinch events and switches of
\* props.interactive
ControlNext ==
    \/ DoResize
    \/ DoHandleWheel
    \/ DoHandlePinch
    \/ DoWatchProps

ControlSpec == Init /\ [][ControlNext]_vars

\* the collage, its subscriber and the downloader together
AppNext ==
    \/ AppInit
    \/ AppShiftOrigin
    \/ RunMicrotask
    \/ DoListingReturns
    \/ DoListingFails
    \/ DoFetchResolves
    \/ DoImageLoads
    \/ DoFetchFails

AppSpec == Init /\ [][AppNext]_vars

\* the collage, its subscriber and the downloader up to the start of the
\* image fetches: what a fetch does once it is started has no part in the
\* handing out of previews
AssignNext ==
    \/ AppInit
    \/ AppShiftOrigin
    \/ RunMicrotask
    \/ DoListingReturnsMore
    \/ DoListingFails

AssignSpec == Init /\ [][AssignNext]_vars

\* the component under drag gestures, flicks and animation ticks
MotionNext ==
    \/ DoResize
    \/ DoWatchProps
    \/ DoHandleDrag
    \/ DoFlick
    \/ DoUpdate

MotionSpec == Init /\ [][MotionNext]_vars

\* requestAnimationFrame calls update() again and again: a tick that takes
\* the time or changes the drift rate does come
DriftSpec ==
    /\ Init /\ [][MotionNext]_vars
    /\ WF_<<painted, driftRate>>(DoUpdate)

\* the loops of init() and of the bounds checks, pass by pass
LoopNext ==
    \/ BeginInit
    \/ BeginCheck
    \/ IntroducePass
    \/ RemovePass

\* the loops run within one call: a pass that is due does run
LoopSpec ==
    /\ Init /\ [][LoopNext]_vars
    /\ WF_vars(IntroducePass)
    /\ WF_vars(RemovePass)

\* the scoreboard under guesses and returns to the intro
ScoreNext ==
    \/ DoGuess
    \/ DoFlick

ScoreSpec == Init /\ [][ScoreNext]_vars

\* the preview pool when the listing always returns 0 entries
StarvedNext ==
    \/ StarvedAssignBlocks
    \/ RunMicrotask
    \/ ListingReturnsNothing

StarvedSpec ==
    /\ Init /\ [][StarvedNext]_vars
    /\ WF_vars(RunMicrotask)
    /\ WF_vars(ListingReturnsNothing)

(***************************************************************************)
(* Geometry the properties speak of.                                       *)
(***************************************************************************)
\* the pixel position present() computes for a block
pixelPosition(b) == add(multiply(b.position, vectorOf(blockSize)), origin)

Live == Range(blocks)
LivePositions == {b.position : b \in Live}

Initialised == gen > 0

\* the latest operation ran checkBounds() on an initialised collage
BoundsChecked == Initialised /\ last.checked

\* the columns and rows of the lattice whose inside meets the viewport
\* rectangle [0, viewportSize.x] x [0, viewportSize.y]
ColsInView ==
    {c \in ((0 - origin.x) \div blockSize - 1)
              ..((viewportSize.x - origin.x) \div blockSize + 1) :
        /\ origin.x + c * blockSize < viewportSize.x
        /\ origin.x + (c + 1) * blockSize > 0}
RowsInView ==
    {r \in ((0 - origin.y) \div blockSize - 1)
              ..((viewportSize.y - origin.y) \div blockSize + 1) :
        /\ origin.y + r * blockSize < viewportSize.y
        /\ origin.y + (r + 1) * blockSize > 0}

\* Every point of the viewport lies in the rectangle of a live block: the
\* blocks are cells of one lattice, so this is that every cell whose inside
\* meets the viewport holds a block.
Covered == \A c \in ColsInView, r \in RowsInView : V(c, r) \in LivePositions

\* the removal margin of remove(): two block widths
removalMargin == blockSize * 2

\* the rectangle of b lies wholly beyond the viewport grown by the removal
\* margin, on one of the four sides
BeyondMargin(b) ==
    LET p == pixelPosition(b)
    IN \/ p.x + blockSize < -removalMargin
       \/ p.x > viewportSize.x + removalMargin
       \/ p.y + blockSize < -removalMargin
       \/ p.y > viewportSize.y + removalMargin

\* the pixel edges of the grid
GridLeft   == origin.x + blockOrigin.x * blockSize
GridTop    == origin.y + blockOrigin.y * blockSize
GridRight  == GridLeft + blockCounts.x * blockSize
GridBottom == GridTop + blockCounts.y * blockSize

Introduced == Range(last.introduced)
Removed == Range(last.removed)
Before == Range(last.before)

\* the blocks of the emitted events of a state
EventBlocks(state) ==
    UNION {Range(emitted[i].blocks) : i \in {j \in 1..Len(emitted) : emitted[j].newState = state}}

(***************************************************************************)
(* C1. Coverage: on an initialised collage, once checkBounds() has run,    *)
(* every point of the viewport lies in the rectangle of a live block.      *)
(***************************************************************************)
C1_Coverage == BoundsChecked => Covered

\* a bounds check that had to add blocks and left the viewport covered
C1_Witness == BoundsChecked /\ Len(last.introduced) > 0 /\ Covered

(***************************************************************************)
(* C2. Margin: after every checkBounds() no live block lies wholly beyond  *)
(* the viewport grown by the removal margin (two block widths).            *)
(***************************************************************************)
C2_Margin == BoundsChecked => \A b \in Live : ~BeyondMargin(b)

\* a bounds check that removed blocks
C2_Witness == BoundsChecked /\ Len(last.removed) > 0 /\ Live # {}

(***************************************************************************)
(* C3. Uniqueness: in every reachable state no two live blocks have the    *)
(* same grid position.                                                     *)
(***************************************************************************)
C3_Uniqueness ==
    \A i, j \in 1..Len(blocks) : i # j => blocks[i].position # blocks[j].position

\* one bounds check added two or more columns
C3_Witness ==
    /\ BoundsChecked
    /\ Cardinality({b.position.x : b \in Introduced}
                     \ {b.position.x : b \in Before}) >= 2
    /\ Live # {}

(***************************************************************************)
(* C4. Idempotence: a checkBounds() that runs with the origin and block    *)
(* size of the previous checkBounds() leaves the blocks as they were and   *)
(* emits no event.                                                         *)
(***************************************************************************)
C4_Idempotence ==
    (BoundsChecked /\ last.sameAsLastCheck) =>
        /\ blocks = last.before
        /\ emitted = <<>>

\* a second bounds check with nothing changed, on a grid with blocks
C4_Witness == BoundsChecked /\ last.sameAsLastCheck /\ Live # {}

(***************************************************************************)
(* C5. Add/remove cancellation: a block created by introduce() and dropped *)
(* by remove() in the same checkBounds() is in neither event of that call; *)
(* the New event holds exactly the blocks live after and not before, the   *)
(* Removed event exactly the blocks live before and not after.             *)
(***************************************************************************)
C5_Cancellation ==
    last.checked =>
        /\ \A b \in Introduced \cap Removed :
              b \notin EventBlocks("new") \cup EventBlocks("removed")
        /\ EventBlocks("new") = Live \ Before
        /\ EventBlocks("removed") = Before \ Live

\* a bounds check that created blocks and dropped them again, and emitted
C5_Witness ==
    /\ BoundsChecked
    /\ Introduced \cap Removed # {}
    /\ Len(emitted) > 0

(***************************************************************************)
(* C6. Refill coalescing: at most one listing request is outstanding; of   *)
(* the calls of assignBlocks suspended on it exactly one, the first to     *)
(* need the refill, has issued it, and all of them await that one request, *)
(* which is the one pendingPoolRefillRequest holds.                        *)
(***************************************************************************)
Outstanding == {q \in PromiseIds : promises[q].status = "pending"}

Suspended == {c \in 1..Len(calls) : calls[c].pc \in {"awaitOwn", "awaitPending"}}

AwaitingOutstanding == {c \in Suspended : calls[c].awaits \in Outstanding}

C6_RefillCoalescing ==
    /\ Cardinality(Outstanding) <= 1
    /\ \A q \in Outstanding :
          /\ pendingPoolRefillRequest = q
          /\ Len(promises[q].waiters) >= 1
          /\ calls[promises[q].waiters[1]].pc = "awaitOwn"
          /\ \A i \in 2..Len(promises[q].waiters) :
                calls[promises[q].waiters[i]].pc = "awaitPending"
    /\ \A c \in AwaitingOutstanding :
          /\ calls[c].awaits = pendingPoolRefillRequest
          /\ \E i \in 1..Len(promises[calls[c].awaits].waiters) :
                promises[calls[c].awaits].waiters[i] = c

\* two calls need a refill at once: both await the one outstanding request
C6_Witness ==
    /\ Cardinality(Outstanding) = 1
    /\ Cardinality(AwaitingOutstanding) >= 2

(***************************************************************************)
(* C7. Starved pool: when the listing always returns 0 entries, every call *)
(* of assignBlocks with a batch that is not empty ends with every block of *)
(* the batch Errored and no image fetch attempted for any of them.         *)
(***************************************************************************)
EndedErrored(c) ==
    /\ calls[c].pc = "done"
    /\ \A t \in Range(calls[c].blocks) :
          tiles[t].state = "errored" /\ tiles[t].fetches = <<>>

C7_StarvedPool ==
    \A c \in 1..MaxCalls :
        (c <= Len(calls) /\ Len(calls[c].blocks) > 0) ~> (c <= Len(calls) /\ EndedErrored(c))

(***************************************************************************)
(* C8. Preload coverage: after every checkBounds() the grid reaches at     *)
(* least preloadDistance beyond the viewport on all four sides.            *)
(***************************************************************************)
C8_PreloadCoverage ==
    BoundsChecked =>
        /\ GridLeft <= -preloadDistance
        /\ GridTop <= -preloadDistance
        /\ GridRight >= viewportSize.x + preloadDistance
        /\ GridBottom >= viewportSize.y + preloadDistance

(***************************************************************************)
(* C9. Bounded growth: a shiftOrigin() by two block widths or more along x,*)
(* from a grid that init() or checkBounds() has just settled, adds a       *)
(* column at the leading edge and removes the column of the trailing edge  *)
(* in that one call; and after every checkBounds() the number of live      *)
(* blocks is at most (viewport/blockSize + 4) on each axis.                *)
(***************************************************************************)

BeforeXs == {b.position.x : b \in Before}
MinX(S) == CHOOSE m \in S : \A n \in S : m <= n
MaxX(S) == CHOOSE m \in S : \A n \in S : m >= n

C9_LargeJump ==
    (/\ BoundsChecked
     /\ last.op = "shiftOrigin"
     /\ last.prevSettled
     /\ Abs(last.arg.x) >= 2 * blockSize) =>
        IF last.arg.x < 0
          THEN /\ \E b \in Introduced : b.position.x > MaxX(BeforeXs)
               /\ \E b \in Removed \cap Before : b.position.x = MinX(BeforeXs)
          ELSE /\ \E b \in Introduced : b.position.x < MinX(BeforeXs)
               /\ \E b \in Removed \cap Before : b.position.x = MaxX(BeforeXs)

C9_CountBound ==
    BoundsChecked =>
        Len(blocks) <= (viewportSize.x \div blockSize + 4)
                         * (viewportSize.y \div blockSize + 4)

C9_BoundedGrowth == C9_LargeJump /\ C9_CountBound

\* init(150, {800, 600}) then shiftOrigin({-1000, 0}): columns added and
\* columns removed in the one call
C9_Witness ==
    /\ BoundsChecked
    /\ last.op = "shiftOrigin" /\ last.arg = V(-1000, 0) /\ last.prevSettled
    /\ blockSize = 150 /\ viewportSize = V(800, 600)
    /\ origin = V(-1000, 0)
    /\ Introduced # {} /\ Removed \cap Before # {}

(***************************************************************************)
(* C10. Events of a bounds check: at most two, at most one New and then at *)
(* most one Removed, none with an empty list of blocks.                    *)
(***************************************************************************)
C10_Events ==
    last.checked =>
        /\ Len(emitted) <= 2
        /\ Cardinality({i \in 1..Len(emitted) : emitted[i].newState = "new"}) <= 1
        /\ Cardinality({i \in 1..Len(emitted) : emitted[i].newState = "removed"}) <= 1
        /\ \A i \in 1..Len(emitted) : emitted[i].newState \in {"new", "removed"}
        /\ \A i, j \in 1..Len(emitted) :
              (emitted[i].newState = "new" /\ emitted[j].newState = "removed") => i < j
        /\ \A i \in 1..Len(emitted) : Len(emitted[i].blocks) > 0

\* a bounds check that emitted a New and a Removed event
C10_Witness == BoundsChecked /\ Len(emitted) = 2

(***************************************************************************)
(* What init() did, read off the state it leaves.                          *)
(***************************************************************************)
\* the latest operation was init()
JustInitialised == last.op = "init"

\* the initial rectangle: ceil(viewportSize / blockSize) on each axis
initialCounts ==
    [x |-> Ceil(viewportSize.x, blockSize), y |-> Ceil(viewportSize.y, blockSize)]

\* rows or columns introduce() added at the start and at the end of an
\* axis since the initial rectangle
addedAtStart(axis) == 0 - blockOrigin[axis]
addedAtEnd(axis) == blockCounts[axis] + blockOrigin[axis] - initialCounts[axis]

\* the end edge of the initial rectangle is short of the preload line
EndNeedsMargin(axis) ==
    initialCounts[axis] * blockSize < viewportSize[axis] + preloadDistance

\* the least number of lines of blockSize that cover a distance
LinesFor(distance) == IF distance <= 0 THEN 0 ELSE Ceil(distance, blockSize)

(***************************************************************************)
(* C11. Init event: init() emits one event; it is a New event and its list *)
(* is the list of the live blocks, those of the initial rectangle and      *)
(* those introduce() added.  The state was reset first: the origin is      *)
(* zero, the ids are 0, 1, ... with the counter after the last, and the    *)
(* initial rectangle lies at grid offset zero, row by row from id 0.       *)
(***************************************************************************)
C11_InitEvent ==
    JustInitialised =>
        /\ Len(emitted) = 1
        /\ emitted[1].newState = "new"
        /\ emitted[1].blocks = blocks
        /\ origin = vectorOf(0)
        /\ blockId = Len(blocks)
        /\ \A i \in 1..Len(blocks) :
              /\ blocks[i].id = i - 1
              /\ blocks[i].gen = gen
              /\ i <= initialCounts.x * initialCounts.y =>
                    blocks[i].position = [x |-> (i - 1) % initialCounts.x,
                                          y |-> (i - 1) \div initialCounts.x]
        /\ Len(blocks) = blockCounts.x * blockCounts.y

\* a second init(), on a collage whose id counter had advanced: the event
\* holds the rectangle and the margin lines
C11_Witness ==
    /\ JustInitialised
    /\ gen = 2
    /\ Len(last.before) > 0
    /\ Len(blocks) > initialCounts.x * initialCounts.y

(***************************************************************************)
(* C12. Initial fill: init() makes ceil(viewportSize.x / blockSize) by     *)
(* ceil(viewportSize.y / blockSize) blocks, and introduce() then adds on   *)
(* each edge the least number of lines that brings the grid to the preload *)
(* line: at the start ceil(preloadDistance / blockSize), at the end what   *)
(* the initial rectangle is short of; one line or none when the block size *)
(* is at least preloadDistance.                                            *)
(***************************************************************************)
C12_InitialFill ==
    JustInitialised =>
        /\ Len(blocks) - Len(last.introduced) = initialCounts.x * initialCounts.y
        /\ Len(blocks) >= initialCounts.x * initialCounts.y
        /\ \A axis \in {"x", "y"} :
              /\ addedAtStart(axis) = LinesFor(preloadDistance)
              /\ addedAtEnd(axis) =
                    LinesFor(viewportSize[axis] + preloadDistance
                               - initialCounts[axis] * blockSize)
              /\ blockSize >= preloadDistance =>
                    /\ addedAtStart(axis) = 1
                    /\ addedAtEnd(axis) = IF EndNeedsMargin(axis) THEN 1 ELSE 0

\* init(150, {800, 600}): 6 x 4 = 24 blocks, then a column at the left, a
\* row at the top and at the bottom, none at the right
C12_Witness ==
    /\ JustInitialised
    /\ blockSize = 150 /\ viewportSize = V(800, 600)
    /\ Len(blocks) - Len(last.introduced) = 24
    /\ addedAtEnd("x") = 0 /\ addedAtEnd("y") = 1
    /\ addedAtStart("x") = 1 /\ addedAtStart("y") = 1

\* C12 as stated: one line on each edge that needs margin coverage, none
\* on the others, whatever the block size
C12_ExactlyOne ==
    JustInitialised =>
        \A axis \in {"x", "y"} :
            /\ addedAtStart(axis) = 1
            /\ addedAtEnd(axis) = IF EndNeedsMargin(axis) THEN 1 ELSE 0

(***************************************************************************)
(* What the latest call of zoom() was asked.                               *)
(***************************************************************************)
\* the latest operation of the component called zoom()
JustZoomed == lastZoom.op \in {"wheel", "pinch", "resize"}

\* a level below minZoomLevel or above maxZoomLevel
BelowMin(level) == level.n < minZoomLevel * level.d
AboveMax(level) == level.n > maxZoomLevel * level.d

(***************************************************************************)
(* C13. Zoom clamping: a call of zoom() with a level below minZoomLevel or *)
(* above maxZoomLevel leaves the zoom level, the block size, the origin    *)
(* and the blocks as they were, runs no bounds check and emits no event.   *)
(***************************************************************************)
C13_ZoomClamping ==
    (/\ JustZoomed
     /\ BelowMin(lastZoom.requestedLevel) \/ AboveMax(lastZoom.requestedLevel)) =>
        /\ ~lastZoom.ran
        /\ zoomLevel = lastZoom.zoomLevel
        /\ blockSize = lastZoom.blockSize
        /\ origin = lastZoom.origin
        /\ blocks = lastZoom.blocks
        /\ lastZoom.events = <<>>

\* at zoom level 2 of an initialised collage, a wheel event asks for level
\* 4 or 6
C13_Witness ==
    /\ JustZoomed
    /\ AboveMax(lastZoom.requestedLevel)
    /\ zoomLevel = Whole(2)
    /\ blockSize = 300
    /\ Len(blocks) > 0

(***************************************************************************)
(* C14. Focal point: after a call of zoom() that went past its tests, the  *)
(* point of the grid under the reference point p is the one that was under *)
(* it before: (p - origin) / blockSize is the same before and after.       *)
(***************************************************************************)
C14_FocalPoint ==
    (JustZoomed /\ lastZoom.ran) =>
        \A axis \in {"x", "y"} :
            (lastZoom.at[axis] - lastZoom.origin[axis]) * blockSize
                = (lastZoom.at[axis] - origin[axis]) * lastZoom.blockSize

(***************************************************************************)
(* C15. Block size bound: under the operations of the component the block  *)
(* size of the collage is at least defaultBlockSize * minZoomLevel and at  *)
(* most defaultBlockSize * maxZoomLevel.                                   *)
(***************************************************************************)
C15_BlockSizeBound ==
    /\ blockSize >= defaultBlockSize * minZoomLevel
    /\ blockSize <= defaultBlockSize * maxZoomLevel

\* a zoom to level 3 on an initialised collage, block size 450
C15_Witness ==
    /\ JustZoomed /\ lastZoom.ran
    /\ zoomLevel = Whole(3)
    /\ blockSize = defaultBlockSize * maxZoomLevel
    /\ Len(blocks) > 0

(***************************************************************************)
(* Tiles of the application: the block objects the collage has made.       *)
(***************************************************************************)
Tiles == 1..Len(tiles)

\* the tiles a Removed event has named
RemovedTiles == {t \in Tiles : tiles[t].removed}

\* the tiles of the blocks in Collage.blocks, which present() maps
PresentedTiles == {t \in Tiles : \E i \in 1..Len(blocks) : tiles[t].block = Identity(blocks[i])}

(***************************************************************************)
(* C16. Removed is terminal: once a Removed event has named a block, no    *)
(* step changes the state of the block any more, a fetch completing after  *)
(* the removal included.                                                   *)
(***************************************************************************)
C16_RemovedTerminal ==
    [][\A t \in RemovedTiles : tiles'[t].state = tiles[t].state]_vars

(***************************************************************************)
(* C17. Errored is not retried: once the state of a block is Errored it    *)
(* stays Errored, and no fetch for the block is started or makes a step.   *)
(***************************************************************************)
C17_ErroredNotRetried ==
    [][\A t \in Tiles :
          tiles[t].state = "errored" =>
              /\ tiles'[t].state = "errored"
              /\ tiles'[t].fetches = tiles[t].fetches]_vars

(***************************************************************************)
(* C18. Batch failure is all-or-nothing: when a call of assignBlocks has   *)
(* ended in its catch block, every block of the array it was given is      *)
(* Errored, has no url and no uuid, and no fetch was started for it.       *)
(***************************************************************************)
C18_AllOrNothing ==
    \A c \in 1..Len(calls) :
        calls[c].threw =>
            \A t \in Range(calls[c].caught) :
                /\ tiles[t].state = "errored"
                /\ tiles[t].url = Null
                /\ tiles[t].uuid = Null
                /\ tiles[t].fetches = <<>>

(***************************************************************************)
(* C19. A failed fetch is isolated: a block that is Downloading and whose  *)
(* fetch has failed stays Downloading from then on; no step makes it       *)
(* Errored, gives it another url or starts another fetch for it.           *)
(***************************************************************************)
FetchFailed(t) ==
    /\ tiles[t].fetches # <<>>
    /\ \A f \in 1..Len(tiles[t].fetches) : tiles[t].fetches[f] = "failed"

C19_FetchFailureIsolated ==
    [][\A t \in Tiles :
          (tiles[t].state = "downloading" /\ FetchFailed(t)) =>
              /\ tiles'[t].state = "downloading"
              /\ tiles'[t].url = tiles[t].url
              /\ tiles'[t].fetches = tiles[t].fetches]_vars

(***************************************************************************)
(* C20. A stale fetch completion is harmless: a block a Removed event has  *)
(* named is not among the blocks present() maps, and a step of a fetch for *)
(* such a block changes that block only: every other block and the whole   *)
(* state of the collage stay as they are.                                  *)
(***************************************************************************)
\* a fetch for tile t makes a step (its response arrives, its image loads)
FetchCompletes(t) ==
    /\ Len(tiles') = Len(tiles)
    /\ \E f \in 1..Len(tiles[t].fetches) :
          /\ tiles[t].fetches[f] \in {"inflight", "decoding"}
          /\ tiles'[t].fetches[f] \in {"decoding", "loaded"}
          /\ tiles'[t].fetches[f] # tiles[t].fetches[f]

C20_StaleFetchHarmless ==
    /\ [](RemovedTiles \cap PresentedTiles = {})
    /\ [][\A t \in RemovedTiles :
             FetchCompletes(t) =>
                 /\ \A u \in Tiles \ {t} : tiles'[u] = tiles[u]
                 /\ UNCHANGED <<blockSize, blocks, viewportSize, blockOrigin,
                                origin, blockCounts, blockId, gen>>]_vars

\* the image of a removed block has loaded after the removal, while other
\* blocks are presented
C20_Witness ==
    \E t \in RemovedTiles :
        /\ tiles[t].stale
        /\ tiles[t].state = "ready"
        /\ PresentedTiles # {}

(***************************************************************************)
(* C21. Errors of the downloader do not reach the collage: a call of       *)
(* assignBlocks that fails ends in its catch block and its promise is      *)
(* fulfilled, not rejected; the step in which it fails leaves the origin,  *)
(* the block size, the viewport, the grid offset, the counts and the       *)
(* blocks of the collage as they were; and every bounds check, those after *)
(* a failure included, leaves the viewport covered.                        *)
(***************************************************************************)
Failed == {c \in 1..Len(calls) : calls[c].threw}

C21_ErrorsContained ==
    /\ [](\A c \in Failed : calls[c].pc = "done")
    /\ [](BoundsChecked => Covered)
    /\ [][Failed' # Failed =>
             UNCHANGED <<origin, blockSize, viewportSize, blockOrigin,
                         blockCounts, blocks, blockId, gen>>]_vars

\* a call has failed, and the collage has since run a bounds check that
\* brought in blocks: the call for them is later than the failed one
C21_Witness ==
    /\ BoundsChecked
    /\ Len(last.introduced) > 0
    /\ \E c \in Failed :
          /\ calls[c].live
          /\ \A t \in Range(calls[Len(calls)].blocks) : t \notin Range(calls[c].caught)
          /\ Len(calls) > c

(***************************************************************************)
(* C22. Block ids.  As stated: a block never has the id of another block,  *)
(* whatever the operations, init() included.  As it holds: init() starts   *)
(* the ids again at 0; between two calls of init() the counter never goes  *)
(* back, and the blocks an operation makes take the ids from the old value *)
(* of the counter up to the new one, each id once.                         *)
(***************************************************************************)
\* the blocks before the latest operation and those after it never share an
\* id unless they are the same block
C22_IdsNeverReused ==
    \A b1 \in Before \cup Live, b2 \in Live : b1.id = b2.id => b1 = b2

C22_IdsWithinInit ==
    [][LET base == IF gen' = gen THEN blockId ELSE 0
           made == IF gen' = gen THEN Range(last'.introduced) ELSE Range(blocks')
       IN /\ gen' = gen => blockId' >= blockId
          /\ \A b \in made : base <= b.id /\ b.id < blockId'
          /\ \A b1, b2 \in made : b1.id = b2.id => b1 = b2
          /\ Cardinality(made) = blockId' - base
          /\ \A b1, b2 \in Range(blocks') : b1.id = b2.id => b1 = b2]_vars

\* after a second init(), an operation has made blocks
C22_Witness ==
    /\ gen = 2
    /\ last.op # "init"
    /\ Len(last.introduced) > 0
    /\ Live # {}

(***************************************************************************)
(* C30. Grid offset bookkeeping: on every grid the collage reaches,        *)
(* extend() at the start of an axis lowers blockOrigin on that axis by 1   *)
(* and puts the new blocks on the line old blockOrigin - 1; shrink() at    *)
(* the start raises it by 1; extend() and shrink() at the end leave it;    *)
(* none of them changes blockOrigin on the other axis, and the blocks that *)
(* stay are the same blocks at the same positions.                         *)
(***************************************************************************)
C30_GridOffset ==
    \A axis \in {"x", "y"} :
        LET other == oppositeAxis(axis)
            es == extend(Grid, axis, "start")
            ee == extend(Grid, axis, "end")
            ss == shrink(Grid, axis, "start")
            se == shrink(Grid, axis, "end")
        IN /\ es.g.blockOrigin[axis] = blockOrigin[axis] - 1
           /\ \A i \in 1..Len(es.out) :
                 es.out[i].position[axis] = blockOrigin[axis] - 1
           /\ Len(es.out) = blockCounts[other]
           /\ ss.g.blockOrigin[axis] = blockOrigin[axis] + 1
           /\ ee.g.blockOrigin = blockOrigin
           /\ se.g.blockOrigin = blockOrigin
           /\ \A r \in {es, ee, ss, se} : r.g.blockOrigin[other] = blockOrigin[other]
           /\ \A r \in {es, ee} : r.g.blocks = blocks \o r.out
           /\ \A r \in {ss, se} :
                 /\ Range(r.g.blocks) = Live \ Range(r.out)
                 /\ Len(r.g.blocks) = Len(blocks) - Len(r.out)

\* the latest operation has added a line at the start of an axis and the
\* grid offset is below -1 there
C30_Witness ==
    /\ BoundsChecked
    /\ \E axis \in {"x", "y"} :
          /\ blockOrigin[axis] < -1
          /\ \E b \in Introduced \cap Live : b.position[axis] = blockOrigin[axis]

(***************************************************************************)
(* C26. A zoom checks the bounds once: a call of zoom() that went past its *)
(* tests runs checkBounds() exactly once, at the new block size and the    *)
(* new origin together, and the events of the call are those of that one   *)
(* check on the grid the call found: none for the new block size at the    *)
(* old origin.                                                             *)
(***************************************************************************)
C26_ZoomChecksOnce ==
    (JustZoomed /\ lastZoom.ran) =>
        /\ lastZoom.checks = <<CheckedAt(origin, blockSize)>>
        /\ blockSize = (defaultBlockSize * zoomLevel.n) \div zoomLevel.d
        /\ \A axis \in {"x", "y"} :
              (lastZoom.at[axis] - origin[axis]) * lastZoom.zoomLevel.n * zoomLevel.d
                  = (lastZoom.at[axis] - lastZoom.origin[axis])
                        * zoomLevel.n * lastZoom.zoomLevel.d
        /\ lastZoom.events
              = checkBounds(lastZoom.grid, origin, blockSize, viewportSize).events
        /\ last.checked

\* a wheel or pinch event changed the block size and the origin, and its
\* one check at the new block size and the old origin would have emitted
\* other events
C26_Witness ==
    /\ JustZoomed /\ lastZoom.ran
    /\ lastZoom.op \in {"wheel", "pinch"}
    /\ blockSize # lastZoom.blockSize
    /\ origin # lastZoom.origin
    /\ lastZoom.events # <<>>
    /\ checkBounds(lastZoom.grid, lastZoom.origin, blockSize, viewportSize).events
          # lastZoom.events

(***************************************************************************)
(* C27. Previews are handed out first in, first out, one per block: the    *)
(* previews shifted off the pool so far are the first ones the listing     *)
(* served, in the order it served them, each taken once; the pool holds    *)
(* the ones that follow, in order; a call of assignBlocks takes at most    *)
(* one preview for a block, and a call on an array of its own that ended   *)
(* without an error took one for each of its blocks, in their order; the   *)
(* url of a block is the preview it took last.                             *)
(***************************************************************************)
HandedBy(c) == {k \in 1..Len(handed) : handed[k].call = c}
HandedTo(t) == {k \in 1..Len(handed) : handed[k].tile = t}

C27_FifoAssignment ==
    /\ \A k \in 1..Len(handed) : handed[k].preview = k
    /\ \A i \in 1..Len(previewPool) : previewPool[i] = Len(handed) + i
    /\ Len(handed) + Len(previewPool) <= served
    /\ \A j, k \in 1..Len(handed) :
          (handed[j].call = handed[k].call /\ handed[j].tile = handed[k].tile)
              => j = k
    /\ \A c \in 1..Len(calls) :
          (~calls[c].live /\ calls[c].pc = "done" /\ ~calls[c].threw) =>
              /\ Cardinality(HandedBy(c)) = Len(calls[c].blocks)
              /\ \A i, j \in 1..Len(calls[c].blocks) :
                    i < j => \E k, l \in HandedBy(c) :
                                /\ k < l
                                /\ handed[k].tile = calls[c].blocks[i]
                                /\ handed[l].tile = calls[c].blocks[j]
    /\ \A t \in 1..Len(tiles) :
          IF HandedTo(t) = {}
            THEN tiles[t].url = Null
            ELSE tiles[t].url = CHOOSE k \in HandedTo(t) : \A l \in HandedTo(t) : l <= k

\* two calls have taken previews, three or more together, and a call on
\* an array of its own has ended without an error
C27_Witness ==
    /\ \E j, k \in 1..Len(handed) : handed[j].call # handed[k].call
    /\ Len(handed) >= 3
    /\ \E c \in 1..Len(calls) :
          ~calls[c].live /\ calls[c].pc = "done" /\ ~calls[c].threw
             /\ Len(calls[c].blocks) > 1

(***************************************************************************)
(* What the latest drag event or tick was.                                 *)
(***************************************************************************)
\* the latest motion was a drag event that handleDrag did not return from
\* at its tests
JustDragged == lastMotion.op = "drag" /\ lastMotion.shifted

\* the latest motion was a tick that painted
JustPainted == lastMotion.op = "update"

\* the blocks the collage had whose square, edges included, the pointer of
\* the latest event was on
UnderPointer ==
    {b \in Range(lastMotion.seen.blocks) :
        \A axis \in {"x", "y"} :
           LET low == lastMotion.seen.origin[axis]
                         + b.position[axis] * lastMotion.seen.blockSize
           IN /\ low <= lastMotion.event.xy[axis]
              /\ lastMotion.event.xy[axis] <= low + lastMotion.seen.blockSize}

(***************************************************************************)
(* C23. Tap versus drag: a selection is emitted only by the last event of  *)
(* a gesture whose distance is 0, and then for a block under the pointer;  *)
(* the last event of a gesture with a distance other than 0 emits none,    *)
(* and no other event, tick or flick does.  A last event with distance 0   *)
(* over a block does emit one.                                             *)
(***************************************************************************)
C23_TapVersusDrag ==
    /\ lastMotion.selected # NoSelection =>
          /\ JustDragged
          /\ lastMotion.event.last
          /\ lastMotion.event.distance = 0
          /\ \E b \in UnderPointer : lastMotion.selected = Identity(b)
    /\ (JustDragged /\ lastMotion.event.last /\ lastMotion.event.distance = 0
           /\ UnderPointer # {})
          => lastMotion.selected # NoSelection

\* a tap on a block of an initialised collage has emitted a selection
C23_Witness ==
    /\ JustDragged
    /\ lastMotion.event.last
    /\ lastMotion.event.distance = 0
    /\ lastMotion.selected # NoSelection
    /\ Cardinality(UnderPointer) >= 1
    /\ Len(lastMotion.seen.blocks) > 4

(***************************************************************************)
(* C24. Pan direction.  As stated: a drag event with delta d moves the     *)
(* origin by -d.  As it holds: handleDrag inverts the delta twice and      *)
(* calls shiftOrigin(d): the origin moves by d, the blocks follow the      *)
(* pointer, and the bounds are checked at the new origin.                  *)
(***************************************************************************)
\* the origin after a drag event is the origin before it less the delta
C24_PanDirection ==
    JustDragged =>
        lastMotion.after.origin
            = add(lastMotion.origin, invert(lastMotion.event.delta))

C24_PanFollowsPointer ==
    JustDragged =>
        /\ lastMotion.shift = lastMotion.event.delta
        /\ lastMotion.after.origin
              = add(lastMotion.origin, lastMotion.event.delta)
        /\ lastMotion.after.blockSize = lastMotion.seen.blockSize
        /\ lastMotion.after.checks
              = <<CheckedAt(lastMotion.after.origin, lastMotion.after.blockSize)>>

\* a drag event with a delta other than 0 on an initialised collage
C24_Witness ==
    /\ JustDragged
    /\ lastMotion.event.delta = V(10, -40)
    /\ gen > 0
    /\ lastMotion.after.origin # lastMotion.origin
    /\ Len(lastMotion.seen.blocks) > 0

(***************************************************************************)
(* C25. A drag suspends the drift: a tick that runs while a drag gesture   *)
(* has begun and not ended leaves the origin where it was.                 *)
(***************************************************************************)
C25_DragSuspendsDrift ==
    (JustPainted /\ lastMotion.dragging /\ interactive) =>
        lastMotion.after.origin = lastMotion.origin

(***************************************************************************)
(* C28. The drift dies out: a tick that paints takes each component of the *)
(* drift rate nearer to 0 by 1 or more, or leaves it at 0; this holds for  *)
(* every rate from -DriftRange to DriftRange; and once the component runs, *)
(* the ticks bring the drift rate to 0 on both axes.                       *)
(***************************************************************************)
DriftRange == 520

\* the latest tick took each component of the drift rate nearer to 0, or
\* left it at 0
Slowed ==
    JustPainted =>
        \A axis \in {"x", "y"} :
           IF lastMotion.driftRate[axis] = 0
             THEN driftRate[axis] = 0
             ELSE Abs(driftRate[axis]) < Abs(lastMotion.driftRate[axis])

\* the decay takes every rate of the range nearer to 0, or leaves it at 0
Slows ==
    \A d \in (-DriftRange)..DriftRange :
       IF d = 0 THEN decay(d) = 0 ELSE Abs(decay(d)) < Abs(d)

Still == driftRate = vectorOf(0)

C28_DriftDiesOut ==
    /\ [](Slowed /\ Slows)
    /\ running ~> Still

\* a tick has taken a drift rate with a negative component to 0 on both
\* axes
C28_Witness ==
    /\ JustPainted
    /\ lastMotion.driftRate.x < 0 \/ lastMotion.driftRate.y < 0
    /\ driftRate = vectorOf(0)
    /\ lastMotion.shifted

(***************************************************************************)
(* C29. present() returns one entry for each block of the collage, in      *)
(* their order, none left out; the pixel position of an entry is origin +  *)
(* position * blockSize; isOnScreen is true exactly when the square of the *)
(* block, edges included, has a point in common with the rectangle from    *)
(* (0, 0) to viewportSize.                                                 *)
(***************************************************************************)
\* the latest motion called present(): every tick that paints, and a tap
CalledPresent ==
    \/ JustPainted
    \/ JustDragged /\ lastMotion.event.last /\ lastMotion.event.distance = 0

Larger(a, b) == IF a > b THEN a ELSE b
Smaller(a, b) == IF a < b THEN a ELSE b

C29_Present ==
    CalledPresent =>
        LET seen == lastMotion.seen
            presented == lastMotion.presented
        IN /\ Len(presented) = Len(seen.blocks)
           /\ \A i \in 1..Len(presented) :
                 /\ presented[i].block = seen.blocks[i]
                 /\ \A axis \in {"x", "y"} :
                       presented[i].pixelPosition[axis]
                           = seen.origin[axis]
                               + seen.blocks[i].position[axis] * seen.blockSize
                 /\ presented[i].isOnScreen
                       <=> \A axis \in {"x", "y"} :
                              Larger(presented[i].pixelPosition[axis], 0)
                                 <= Smaller(presented[i].pixelPosition[axis]
                                               + seen.blockSize,
                                            seen.viewportSize[axis])
           /\ \A i, j \in 1..Len(presented) :
                 presented[i].block = presented[j].block => i = j

\* a tick has drawn blocks on the screen, blocks off it and a block that
\* only touches an edge of the viewport
C29_Witness ==
    /\ JustPainted
    /\ gen > 0
    /\ \E i \in 1..Len(lastMotion.presented) : ~lastMotion.presented[i].isOnScreen
    /\ \E i \in 1..Len(lastMotion.presented) :
          /\ lastMotion.presented[i].isOnScreen
          /\ \E axis \in {"x", "y"} :
                \/ lastMotion.presented[i].pixelPosition[axis]
                      + lastMotion.seen.blockSize = 0
                \/ lastMotion.presented[i].pixelPosition[axis]
                      = lastMotion.seen.viewportSize[axis]

(***************************************************************************)
(* C31. Positions.  As stated: a position a removed block had is never     *)
(* given to a block made later.  As it holds: extend() computes the        *)
(* positions of a new line from blockOrigin and blockCounts alone, so a    *)
(* line that was removed is made again, at the same positions, when the    *)
(* grid grows back over it; the blocks of such a line are new blocks with  *)
(* ids of their own, and no live block has the position of another.        *)
(***************************************************************************)
\* the blocks the step makes, the blocks the operation before it removed
MadeByStep == Range(blocks') \ Live
RemovedBefore == Before \ Live

\* no block an operation makes has the position of a block the operation
\* before it removed from the same grid
C31_PositionsNeverReused ==
    [][\A b \in MadeByStep : \A r \in RemovedBefore :
          r.gen = b.gen => b.position # r.position]_vars

C31_PositionsOfLiveBlocks ==
    [][\A b \in MadeByStep :
          /\ \A o \in Range(blocks') : o.position = b.position => o = b
          /\ gen' = gen =>
                /\ b.id >= blockId
                /\ \A r \in Before \cup Live : r.gen = b.gen => r.id # b.id]_vars

\* init(150, {800, 600}) gave position (0, 0) to block 0; the origin went
\* away and is back at (0, 0), and the block at (0, 0) is another one, made
\* by the latest operation
C31_Witness ==
    /\ gen = 1
    /\ viewportSize = V(800, 600)
    /\ last.op = "setOrigin"
    /\ origin = vectorOf(0)
    /\ \E b \in Introduced \cap Live : b.position = vectorOf(0) /\ b.id # 0

(***************************************************************************)
(* C32. At most once: no block takes a preview (url and uuid) more than    *)
(* once, and no block has more than one image fetch started for it,        *)
(* whatever the order of init(), bounds checks and answers of the listing. *)
(***************************************************************************)
C32_AtMostOnce ==
    \A t \in Tiles :
        /\ Cardinality(HandedTo(t)) <= 1
        /\ Len(tiles[t].fetches) <= 1

(***************************************************************************)
(* C33. Recovery after a failed refill: once a listing request has failed  *)
(* and the calls that awaited it have run, pendingPoolRefillRequest does   *)
(* not hold the failed request any more, so that the next call in need of  *)
(* a refill issues a request of its own.                                   *)
(***************************************************************************)
C33_RefillRecovers ==
    microtasks = <<>> =>
        \/ pendingPoolRefillRequest = Null
        \/ promises[pendingPoolRefillRequest].status # "rejected"

(***************************************************************************)
(* The blocks the events have named so far, as the subscriber has seen     *)
(* them: a tile is made for every block a New event names, and marked when *)
(* a Removed event names it.                                               *)
(***************************************************************************)
AnnouncedNew == {tiles[t].block : t \in Tiles}
AnnouncedRemoved == {tiles[t].block : t \in RemovedTiles}
LiveIdentities == {Identity(b) : b \in Live}

(***************************************************************************)
(* C34. Every removal is announced: the live blocks are the blocks the New *)
(* events have named less the blocks the Removed events have named, after  *)
(* every operation, init() on a collage that has blocks included.          *)
(***************************************************************************)
C34_RemovalsAnnounced == LiveIdentities = AnnouncedNew \ AnnouncedRemoved

(***************************************************************************)
(* C38. Events of a block, in order: an operation names in its New events  *)
(* only blocks no event has named before, each once; it names in its       *)
(* Removed events only blocks that a New event of an earlier operation has *)
(* named and no Removed event has, each once.                              *)
(***************************************************************************)
\* the identities of the blocks of the i-th event, in order
Named(events, i) == [k \in 1..Len(events[i].blocks) |-> Identity(events[i].blocks[k])]

\* the identities the events of a state name, event after event
RECURSIVE NamedIn(_, _, _)
NamedIn(events, state, i) ==
    IF i > Len(events) THEN <<>>
    ELSE (IF events[i].newState = state THEN Named(events, i) ELSE <<>>)
            \o NamedIn(events, state, i + 1)

NoRepeat(s) == \A i, j \in 1..Len(s) : s[i] = s[j] => i = j

C38_EventOrder ==
    [][nOps' # nOps =>
          LET new == NamedIn(emitted', "new", 1)
              removed == NamedIn(emitted', "removed", 1)
          IN /\ NoRepeat(new)
             /\ NoRepeat(removed)
             /\ Range(new) \cap AnnouncedNew = {}
             /\ Range(removed) \subseteq AnnouncedNew \ AnnouncedRemoved
             /\ Range(new) \cap Range(removed) = {}]_vars

\* a bounds check has emitted a New and a Removed event, and the Removed
\* event names blocks that the New event of an earlier operation named
C38_Witness ==
    /\ BoundsChecked
    /\ EventBlocks("new") # {}
    /\ EventBlocks("removed") # {}
    /\ \A b \in EventBlocks("removed") : Identity(b) \in AnnouncedRemoved
    /\ \A b \in EventBlocks("new") : Identity(b) \in AnnouncedNew \ AnnouncedRemoved

(***************************************************************************)
(* C35. Rectangular grid: in every state the positions of the live blocks  *)
(* are those of the rectangle that begins at blockOrigin and is            *)
(* blockCounts wide and high, each position once: no hole, no block        *)
(* outside, and blockCounts.x * blockCounts.y blocks; after a bounds check *)
(* blockCounts is 1 or more on each axis.                                  *)
(***************************************************************************)
Rectangle ==
    {V(x, y) : x \in blockOrigin.x..(blockOrigin.x + blockCounts.x - 1),
               y \in blockOrigin.y..(blockOrigin.y + blockCounts.y - 1)}

C35_RectangularGrid ==
    /\ LivePositions = Rectangle
    /\ Len(blocks) = blockCounts.x * blockCounts.y
    /\ Cardinality(LivePositions) = Len(blocks)
    /\ blockCounts.x >= 0 /\ blockCounts.y >= 0
    /\ last.checked => blockCounts.x >= 1 /\ blockCounts.y >= 1

\* a bounds check added lines and removed lines, at the start of an axis
\* among them, and left a grid of more than one line on each axis
C35_Witness ==
    /\ BoundsChecked
    /\ Introduced \cap Live # {}
    /\ Removed \cap Before # {}
    /\ blockOrigin.x > 0
    /\ blockCounts.x > 1 /\ blockCounts.y > 1

(***************************************************************************)
(* C36. Zoom level and block size agree: after every operation of the      *)
(* component the block size of the collage is defaultBlockSize times the   *)
(* zoom level.                                                             *)
(***************************************************************************)
C36_ZoomLevelAgrees == blockSize * zoomLevel.d = defaultBlockSize * zoomLevel.n

(***************************************************************************)
(* C40. The pool is never found empty: no call of assignBlocks throws      *)
(* 'Empty preview pool', whatever the order of the calls and of the        *)
(* answers of the listing; a call that takes previews takes one for every  *)
(* block of its array as it is then, in one run.                           *)
(***************************************************************************)
Starved == {c \in 1..Len(calls) : calls[c].starved}

C39_Streaks ==
    /\ [](bestStreak >= streak /\ streak >= 0)
    /\ [][/\ bestStreak' >= bestStreak
          /\ lastResult' = "win" =>
                /\ streak' = streak + 1
                /\ bestStreak' = Larger(bestStreak, streak + 1)
          /\ lastResult' = "lose" =>
                /\ streak' = 0
                /\ bestStreak' = bestStreak]_scoreVars

\* a win below the best streak, reached after a loss
C39_Witness ==
    /\ lastResult = "win"
    /\ streak >= 2
    /\ bestStreak > streak

(***************************************************************************)
(* C37. A bounds check terminates.  A pass of introduce() after which the  *)
(* loop goes on has brought the grid nearer to the preload lines: the      *)
(* lines the four edges are short of are fewer than before.  A pass of     *)
(* remove() after which the loop goes on has left fewer blocks.  Each      *)
(* check and each init() that has begun comes to its end.                  *)
(***************************************************************************)
\* the lines of blockSize that cover a distance
Short(distance, bs) == IF distance <= 0 THEN 0 ELSE Ceil(distance, bs)

\* the lines the four edges of the grid are short of the preload lines
ToIntroduce(l) ==
    LET gpo == gridPixelOrigin(l.g, l.origin, l.blockSize)
        gs == gridSize(l.g, l.blockSize)
    IN Short(l.viewportSize.x + preloadDistance - (gpo.x + gs.x), l.blockSize)
         + Short(gpo.x + preloadDistance, l.blockSize)
         + Short(l.viewportSize.y + preloadDistance - (gpo.y + gs.y), l.blockSize)
         + Short(gpo.y + preloadDistance, l.blockSize)

Busy == loop.phase # "idle"

C37_BoundsCheckTerminates ==
    /\ [][/\ (loop.phase = "introduce" /\ loop'.phase = "introduce") =>
                ToIntroduce(loop') < ToIntroduce(loop)
          /\ (loop.phase = "remove" /\ loop'.phase = "remove") =>
                Len(loop'.g.blocks) < Len(loop.g.blocks)
          /\ loop'.passes <= loop.passes + 1]_loopVars
    /\ Busy ~> ~Busy

\* a bounds check on a grid of blocks of 50 has come to its end after more
\* than 20 passes, of introduce() and of remove()
C37_Witness ==
    /\ ~Busy
    /\ ~loop.init
    /\ loop.checks = 2
    /\ loop.blockSize = 50
    /\ loop.passes > 20
    /\ Len(loop.g.blocks) > 0
====
